---- MODULE Spec2Model ----
(***************************************************************************)
(* Contract static-analysis engine of the RWA audit framework              *)
(* (core/multimodal_processor.py, class MultimodalInputProcessor) and the  *)
(* framework that calls it (framework/audit_framework.py).                 *)
(*                                                                         *)
(* A source text is a sequence of one-character strings, so that Python's  *)
(* str.split, str.count, the `in` substring test and the regular           *)
(* expressions are computed character by character, as the interpreter     *)
(* does.  Floating-point values are carried in thousandths (milli-units).  *)
(***************************************************************************)
EXTENDS Integers, Sequences, FiniteSets, TLC

VARIABLES
    security_keywords,      \* self.security_keywords (category -> keyword list, ordered)
    contract_code,          \* the source text handed to the processor
    contract_language,      \* the declared dialect
    appended,               \* a text appended to contract_code by the caller
    now,                    \* the wall clock read by datetime.now()
    results,                \* the values returned by process_smart_contract, in call order
    functions,              \* the value returned by _extract_and_analyze_functions
    security_patterns,      \* the value returned by _detect_security_patterns
    cyclomatic_complexity,  \* _calculate_cyclomatic_complexity(contract_code)
    cyclomatic_appended,    \* _calculate_cyclomatic_complexity(contract_code + appended)
    max_nesting_depth,      \* the value returned by _calculate_max_nesting_depth
    halstead_metrics,       \* the value returned by _calculate_halstead_metrics
    maintainability_index,  \* the value returned by _calculate_maintainability_index
    complexity_metrics,     \* the outcome of _calculate_complexity_metrics
    risk_call,              \* the last call of _assess_pattern_risk_level and its value
    supported_languages,    \* self.supported_languages
    compliance_keywords,    \* self.compliance_keywords
    asset_type_mapping,     \* self.asset_type_mapping
    risk_indicators,        \* self.risk_indicators
    basic_analysis,         \* the value returned by _analyze_basic_structure
    ast_info,               \* the value returned by _parse_contract_ast
    modifiers_call,         \* the last call of _extract_function_modifiers and its value
    index_call,             \* the last direct call of _calculate_maintainability_index
    mutability_call,        \* the last call of _extract_state_mutability and its value
    visibility_call,        \* the last call of _extract_visibility and its value
    statistics,             \* RWASecurityAuditFramework.statistics
    performance_history,    \* ContinuousLearningSystem.performance_history
    model_versions,         \* ContinuousLearningSystem.model_versions
    audit_outcome           \* how the last call of audit_contract ended

vars == <<security_keywords, contract_code, contract_language, appended, now, results,
          functions, security_patterns, cyclomatic_complexity, cyclomatic_appended,
          max_nesting_depth, halstead_metrics, maintainability_index,
          complexity_metrics, risk_call, supported_languages, compliance_keywords,
          asset_type_mapping, risk_indicators, basic_analysis, ast_info, modifiers_call,
          index_call, mutability_call, visibility_call, statistics, performance_history,
          model_versions, audit_outcome>>

\* The fields of the processor other than the keyword table.
other_fields == <<supported_languages, compliance_keywords, asset_type_mapping, risk_indicators>>
\* The values of the two attribute extractors called on their own.
attribute_calls == <<mutability_call, visibility_call>>
\* The values of the methods called on their own.
direct_calls == <<basic_analysis, ast_info, modifiers_call, index_call, attribute_calls>>
\* The state of the audit framework and of its learning system.
framework == <<statistics, performance_history, model_versions, audit_outcome>>

\* A variable that holds no value yet (the call has not been made), and the
\* value v a call returned.
Unset == <<>>
Returned(v) == <<v>>
Val(x) == x[1]
\* Python's Optional: None, and a value that is not None.
None == <<>>
Some(v) == <<v>>

-----------------------------------------------------------------------------
(* Bounds of the model.                                                    *)

\* Number of fragments a source text is assembled from.
MaxFrags == 3
\* Number of fragments of the appended text.
MaxAppend == 2
\* Number of calls of process_smart_contract on one processor.
MaxRuns == 2
\* Number of clock ticks.
MaxClock == 2
\* Largest hit count handed to _assess_pattern_risk_level directly.
MaxCount == 9
\* Largest line count and cyclomatic complexity handed to
\* _calculate_maintainability_index directly.
MaxLinesOfCode == 100
MaxComplexity == 3
\* Number of calls of audit_contract on one framework.
MaxAudits == 3
\* Number of calls of monitor_performance on one learning system.
MaxMonitored == 7

-----------------------------------------------------------------------------
(* Characters and Python's string primitives.                              *)

UpperCase == <<"A","B","C","D","E","F","G","H","I","J","K","L","M",
               "N","O","P","Q","R","S","T","U","V","W","X","Y","Z">>
LowerCase == <<"a","b","c","d","e","f","g","h","i","j","k","l","m",
               "n","o","p","q","r","s","t","u","v","w","x","y","z">>
Digits == {"0","1","2","3","4","5","6","7","8","9"}

\* \w of the re module (ASCII part): letters, digits, underscore.
WordChars == {UpperCase[i] : i \in 1..26} \cup {LowerCase[i] : i \in 1..26}
             \cup Digits \cup {"_"}

\* \s of the re module and the characters str.strip removes.
Whitespace == {" ", "\t", "\n", "\r", "\f"}

\* The characters of the Halstead operator class [+\-*/=<>!&|^%].
OperatorChars == {"+", "-", "*", "/", "=", "<", ">", "!", "&", "|", "^", "%"}

\* the keyword must start a word of the line
ContainsAtWordStart(sub, s) ==
    \E i \in 0..(Len(s) - Len(sub)) :
        /\ SubSeq(s, i + 1, i + Len(sub)) = sub
        /\ i = 0 \/ s[i] \notin WordChars

\* sub in s
Contains(sub, s) ==
    \E i \in 0..(Len(s) - Len(sub)) : SubSeq(s, i + 1, i + Len(sub)) = sub

\* s.count(sub): occurrences counted left to right without overlap.
RECURSIVE CountFrom(_, _, _)
CountFrom(s, sub, i) ==
    IF i + Len(sub) - 1 > Len(s) THEN 0
    ELSE IF SubSeq(s, i, i + Len(sub) - 1) = sub
         THEN 1 + CountFrom(s, sub, i + Len(sub))
         ELSE CountFrom(s, sub, i + 1)

Count(s, sub) == CountFrom(s, sub, 1)

\* s.split('\n'): always at least one line; the empty text gives [''].
RECURSIVE Split(_)
Split(s) ==
    IF \A i \in 1..Len(s) : s[i] # "\n" THEN <<s>>
    ELSE LET i == CHOOSE k \in 1..Len(s) :
                      s[k] = "\n" /\ \A j \in 1..(k - 1) : s[j] # "\n"
         IN  <<SubSeq(s, 1, i - 1)>> \o Split(SubSeq(s, i + 1, Len(s)))

\* s.strip()
Strip(s) ==
    IF \A i \in 1..Len(s) : s[i] \in Whitespace THEN <<>>
    ELSE LET a == CHOOSE k \in 1..Len(s) :
                      s[k] \notin Whitespace /\ \A j \in 1..(k - 1) : s[j] \in Whitespace
             b == CHOOSE k \in 1..Len(s) :
                      s[k] \notin Whitespace /\ \A j \in (k + 1)..Len(s) : s[j] \in Whitespace
         IN  SubSeq(s, a, b)

\* s.lower()
LowerChar(c) ==
    IF \E i \in 1..26 : UpperCase[i] = c
    THEN LowerCase[CHOOSE i \in 1..26 : UpperCase[i] = c]
    ELSE c

Lower(s) == [i \in 1..Len(s) |-> LowerChar(s[i])]

\* The concatenation of a sequence of texts.
RECURSIVE Concat(_)
Concat(fs) == IF fs = <<>> THEN <<>> ELSE Head(fs) \o Concat(Tail(fs))

\* The texts assembled from at most n fragments of the set F.
Texts(F, n) == {Concat(fs) : fs \in UNION {[1..k -> F] : k \in 0..n}}

\* max and min of two integers
Max(a, b) == IF a >= b THEN a ELSE b
Min(a, b) == IF a <= b THEN a ELSE b

-----------------------------------------------------------------------------
(* The methods the class defines.  A call self.m(...) of a name that is    *)
(* not among them raises AttributeError.                                   *)

DefinedMethods == {
    "__init__", "_init_security_keywords", "_init_compliance_keywords",
    "_init_asset_type_mapping", "_init_risk_indicators",
    "process_smart_contract", "process_legal_documents", "process_asset_proofs",
    "process_transaction_history", "_analyze_basic_structure", "_parse_contract_ast",
    "_extract_and_analyze_functions", "_analyze_single_function",
    "_detect_security_patterns", "_calculate_complexity_metrics",
    "_analyze_document_structure", "_extract_compliance_requirements",
    "_identify_jurisdiction", "_verify_asset_proof", "_identify_asset_type",
    "_calculate_transaction_statistics", "_detect_transaction_anomalies",
    "_extract_visibility", "_extract_state_mutability", "_extract_function_modifiers",
    "_is_critical_function", "_assess_pattern_risk_level",
    "_generate_pattern_description", "_calculate_cyclomatic_complexity",
    "_calculate_max_nesting_depth", "_calculate_halstead_metrics",
    "_calculate_maintainability_index", "_is_valuation_outdated", "get_processor_info"}

\* self.m raises AttributeError
AttributeError(m) == m \notin DefinedMethods

-----------------------------------------------------------------------------
(* Keyword tables.                                                         *)

\* _init_security_keywords: a dict, iterated in insertion order.
_init_security_keywords == <<
    [pattern_type |-> "reentrancy",
     keywords |-> <<<<"c", "a", "l", "l">>, <<"s", "e", "n", "d">>, <<"t", "r", "a", "n", "s", "f", "e", "r">>, <<"d", "e", "l", "e", "g", "a", "t", "e", "c", "a", "l", "l">>, <<"c", "a", "l", "l", ".", "v", "a", "l", "u", "e">>>>],
    [pattern_type |-> "access_control",
     keywords |-> <<<<"o", "n", "l", "y", "O", "w", "n", "e", "r">>, <<"o", "n", "l", "y", "A", "d", "m", "i", "n">>, <<"r", "e", "q", "u", "i", "r", "e">>, <<"m", "o", "d", "i", "f", "i", "e", "r">>,
                    <<"m", "s", "g", ".", "s", "e", "n", "d", "e", "r">>, <<"t", "x", ".", "o", "r", "i", "g", "i", "n">>>>],
    [pattern_type |-> "overflow",
     keywords |-> <<<<"a", "d", "d">>, <<"s", "u", "b">>, <<"m", "u", "l">>, <<"d", "i", "v">>, <<"+", "+">>, <<"-", "-">>,
                    <<"+", "=">>, <<"-", "=">>, <<"*", "=">>, <<"/", "=">>>>],
    [pattern_type |-> "timestamp",
     keywords |-> <<<<"b", "l", "o", "c", "k", ".", "t", "i", "m", "e", "s", "t", "a", "m", "p">>, <<"n", "o", "w">>, <<"b", "l", "o", "c", "k", ".", "n", "u", "m", "b", "e", "r">>, <<"b", "l", "o", "c", "k", ".", "d", "i", "f", "f", "i", "c", "u", "l", "t", "y">>>>],
    [pattern_type |-> "randomness",
     keywords |-> <<<<"b", "l", "o", "c", "k", "h", "a", "s", "h">>, <<"b", "l", "o", "c", "k", ".", "d", "i", "f", "f", "i", "c", "u", "l", "t", "y">>, <<"k", "e", "c", "c", "a", "k", "2", "5", "6">>, <<"s", "h", "a", "2", "5", "6">>>>],
    [pattern_type |-> "external_calls",
     keywords |-> <<<<"c", "a", "l", "l">>, <<"d", "e", "l", "e", "g", "a", "t", "e", "c", "a", "l", "l">>, <<"s", "t", "a", "t", "i", "c", "c", "a", "l", "l">>, <<"s", "e", "n", "d">>, <<"t", "r", "a", "n", "s", "f", "e", "r">>>>],
    [pattern_type |-> "state_changes",
     keywords |-> <<<<"s", "t", "o", "r", "a", "g", "e">>, <<"m", "a", "p", "p", "i", "n", "g">>, <<"s", "t", "r", "u", "c", "t">>, <<"a", "r", "r", "a", "y">>>>],
    [pattern_type |-> "gas",
     keywords |-> <<<<"g", "a", "s", "l", "e", "f", "t">>, <<"g", "a", "s">>, <<"g", "a", "s", "L", "i", "m", "i", "t">>, <<"g", "a", "s", "P", "r", "i", "c", "e">>>>],
    [pattern_type |-> "assembly",
     keywords |-> <<<<"a", "s", "s", "e", "m", "b", "l", "y">>, <<"i", "n", "l", "i", "n", "e">>, <<"l", "o", "w", "-", "l", "e", "v", "e", "l">>>>],
    [pattern_type |-> "selfdestruct",
     keywords |-> <<<<"s", "e", "l", "f", "d", "e", "s", "t", "r", "u", "c", "t">>, <<"s", "u", "i", "c", "i", "d", "e">>>>],
    [pattern_type |-> "fallback",
     keywords |-> <<<<"f", "a", "l", "l", "b", "a", "c", "k">>, <<"r", "e", "c", "e", "i", "v", "e">>, <<"p", "a", "y", "a", "b", "l", "e">>>>] >>

\* self.supported_languages, set by __init__.
InitSupportedLanguages == <<<<"s", "o", "l", "i", "d", "i", "t", "y">>, <<"v", "y", "p", "e", "r">>>>

\* The compliance vocabulary: category and its phrases, in declaration order.
_init_compliance_keywords ==
    <<[category |-> "kyc_aml",
       keywords |-> <<"know your customer", "kyc", "anti-money laundering", "aml",
                      "customer due diligence", "cdd", "enhanced due diligence", "edd",
                      "politically exposed person", "pep", "sanctions screening",
                      "source of funds", "beneficial ownership", "identity verification">>],
      [category |-> "accredited_investor",
       keywords |-> <<"accredited investor", "qualified purchaser", "sophisticated investor",
                      "high net worth", "institutional investor", "retail investor",
                      "professional client", "eligible counterparty">>],
      [category |-> "disclosure",
       keywords |-> <<"risk disclosure", "material information", "prospectus",
                      "offering document", "private placement memorandum", "ppm", "form d",
                      "filing", "financial statements", "audit", "transparency">>],
      [category |-> "regulatory_compliance",
       keywords |-> <<"regulation d", "rule 506", "securities act", "investment company act",
                      "investment advisers act", "commodity exchange act", "cftc", "sec",
                      "registration", "exemption", "safe harbor", "no-action letter">>],
      [category |-> "investor_protection",
       keywords |-> <<"investor protection", "suitability", "best execution",
                      "fiduciary duty", "conflict of interest", "fair dealing",
                      "market manipulation", "insider trading", "front running">>]>>

\* The asset vocabulary: phrase and the AssetType member it maps to.
_init_asset_type_mapping ==
    <<[phrase |-> "real estate", asset_type |-> "REAL_ESTATE"],
      [phrase |-> "property", asset_type |-> "REAL_ESTATE"],
      [phrase |-> "commercial real estate", asset_type |-> "REAL_ESTATE"],
      [phrase |-> "residential real estate", asset_type |-> "REAL_ESTATE"],
      [phrase |-> "mixed use real estate", asset_type |-> "REAL_ESTATE"],
      [phrase |-> "bond", asset_type |-> "CORPORATE_BONDS"],
      [phrase |-> "corporate bond", asset_type |-> "CORPORATE_BONDS"],
      [phrase |-> "government bond", asset_type |-> "GOVERNMENT_BONDS"],
      [phrase |-> "treasury", asset_type |-> "GOVERNMENT_BONDS"],
      [phrase |-> "commodity", asset_type |-> "COMMODITIES"],
      [phrase |-> "gold", asset_type |-> "PRECIOUS_METALS"],
      [phrase |-> "silver", asset_type |-> "PRECIOUS_METALS"],
      [phrase |-> "platinum", asset_type |-> "PRECIOUS_METALS"],
      [phrase |-> "patent", asset_type |-> "INTELLECTUAL_PROPERTY"],
      [phrase |-> "trademark", asset_type |-> "INTELLECTUAL_PROPERTY"],
      [phrase |-> "copyright", asset_type |-> "INTELLECTUAL_PROPERTY"],
      [phrase |-> "carbon credit", asset_type |-> "CARBON_CREDITS"],
      [phrase |-> "carbon offset", asset_type |-> "CARBON_CREDITS"],
      [phrase |-> "equity", asset_type |-> "EQUITY_SECURITIES"],
      [phrase |-> "stock", asset_type |-> "EQUITY_SECURITIES"]>>

\* The risk weights, in thousandths.
_init_risk_indicators ==
    [code_complexity |->
         [high_function_count |-> 300, deep_nesting |-> 400,
          long_functions |-> 200, many_dependencies |-> 100],
     asset_risk |->
         [low_verification_rate |-> 400, insufficient_insurance |-> 300,
          concentrated_geography |-> 200, outdated_valuation |-> 100],
     transaction_risk |->
         [high_volatility |-> 300, unusual_patterns |-> 400,
          large_transactions |-> 200, frequent_small_transactions |-> 100]]

\* The category names, in declaration order.
PatternTypes == [i \in 1..Len(_init_security_keywords) |-> _init_security_keywords[i].pattern_type]

-----------------------------------------------------------------------------
(* Pattern detector.                                                       *)

\* risk_thresholds of _assess_pattern_risk_level, with the default of dict.get.
risk_thresholds(pattern_type) ==
    CASE pattern_type = "reentrancy"     -> [high |-> 3, medium |-> 1]
      [] pattern_type = "external_calls" -> [high |-> 5, medium |-> 2]
      [] pattern_type = "assembly"       -> [high |-> 2, medium |-> 1]
      [] pattern_type = "selfdestruct"   -> [high |-> 1, medium |-> 0]
      [] OTHER                           -> [high |-> 5, medium |-> 2]

\* > in place of >=
AssessStrictlyAbove(pattern_type, count) ==
    LET thresholds == risk_thresholds(pattern_type)
    IN  IF count > thresholds.high THEN "HIGH"
        ELSE IF count > thresholds.medium THEN "MEDIUM"
        ELSE "LOW"

_assess_pattern_risk_level(pattern_type, count) ==
    LET thresholds == risk_thresholds(pattern_type)
    IN  IF count >= thresholds.high THEN "HIGH"
        ELSE IF count >= thresholds.medium THEN "MEDIUM"
        ELSE "LOW"

\* The f-string chosen for the category (descriptions.get with its default) and
\* the count formatted into it.
_generate_pattern_description(pattern_type, count) ==
    IF pattern_type \in {"reentrancy", "access_control", "external_calls",
                         "timestamp", "assembly"}
    THEN [template |-> pattern_type, count |-> count]
    ELSE [template |-> "default", count |-> count, pattern_type |-> pattern_type]

\* A keyword found in line number line_number (1-based: i + 1 of enumerate):
\* locations.append(i + 1); count += 1.
RecordHitZeroBased(acc, line_number) ==
    [locations |-> Append(acc.locations, line_number - 1), count |-> acc.count + 1]

RecordHit(acc, line_number) ==
    [locations |-> Append(acc.locations, line_number), count |-> acc.count + 1]

\* break after the first keyword found in the line
RECURSIVE ScanUntilFirstKeyword(_, _, _, _)
ScanUntilFirstKeyword(keywords, line, line_number, acc) ==
    IF keywords = <<>> THEN acc
    ELSE IF Contains(Head(keywords), line) THEN RecordHit(acc, line_number)
    ELSE ScanUntilFirstKeyword(Tail(keywords), line, line_number, acc)

\* The inner loop over the keywords of one category on one line.
RECURSIVE ScanKeywords(_, _, _, _)
ScanKeywords(keywords, line, line_number, acc) ==
    IF keywords = <<>> THEN acc
    ELSE ScanKeywords(Tail(keywords), line, line_number,
                      IF Contains(Head(keywords), line)
                      THEN RecordHit(acc, line_number)
                      ELSE acc)

\* The loop over enumerate(lines) of one category, from line i on.
RECURSIVE ScanLines(_, _, _, _)
ScanLines(keywords, lines, i, acc) ==
    IF i > Len(lines) THEN acc
    ELSE ScanLines(keywords, lines, i + 1, ScanKeywords(keywords, lines[i], i, acc))

\* the tier is read from the default thresholds whatever the category
SecurityPatternOfDefaultTier(pattern_type, count, locations) ==
    [pattern_type |-> pattern_type,
     count |-> count,
     locations |-> locations,
     risk_level |-> _assess_pattern_risk_level("default", count),
     description |-> _generate_pattern_description(pattern_type, count)]

\* The SecurityPattern of a category with its count and locations.
SecurityPattern(pattern_type, count, locations) ==
    [pattern_type |-> pattern_type,
     count |-> count,
     locations |-> locations,
     risk_level |-> _assess_pattern_risk_level(pattern_type, count),
     description |-> _generate_pattern_description(pattern_type, count)]

\* What a category adds to patterns: one finding if count > 0, nothing otherwise.
EmitFindingAlways(pattern_type, count, locations) ==
    <<SecurityPattern(pattern_type, count, locations)>>

EmitFinding(pattern_type, count, locations) ==
    IF count > 0 THEN <<SecurityPattern(pattern_type, count, locations)>> ELSE <<>>

\* The loop over self.security_keywords.items(), from category k on.
RECURSIVE DetectFrom(_, _, _)
DetectFrom(keyword_table, code, k) ==
    IF k > Len(keyword_table) THEN <<>>
    ELSE LET pattern_type == keyword_table[k].pattern_type
             scan == ScanLines(keyword_table[k].keywords, Split(code), 1,
                               [locations |-> <<>>, count |-> 0])
         IN  EmitFinding(pattern_type, scan.count, scan.locations)
             \o DetectFrom(keyword_table, code, k + 1)

\* patterns.insert(0, ...) in place of patterns.append(...)
Reverse(xs) == [i \in 1..Len(xs) |-> xs[Len(xs) + 1 - i]]
DetectPrepending(keyword_table, code) == Reverse(DetectFrom(keyword_table, code, 1))

_detect_security_patterns(keyword_table, code) == DetectFrom(keyword_table, code, 1)

-----------------------------------------------------------------------------
(* Function extractor.                                                     *)

\* The pattern function\s+\w+ matches at position i of the line.
FunctionAt(line, i) ==
    /\ i + 7 <= Len(line)
    /\ SubSeq(line, i, i + 7) = <<"f", "u", "n", "c", "t", "i", "o", "n">>
    /\ \E j \in (i + 8)..(Len(line) - 1) :
          /\ \A k \in (i + 8)..j : line[k] \in Whitespace
          /\ line[j + 1] \in WordChars

\* re.search(r'\bfunction\s+\w+', line): the match must start at a word boundary.
IsFunctionLine(line) ==
    \E i \in 1..Len(line) :
        FunctionAt(line, i) /\ (i = 1 \/ line[i - 1] \notin WordChars)

\* re.search(r'function\s+(\w+)', line): group(1) of the leftmost match, None
\* when there is no match.
FunctionName(line) ==
    IF ~ \E i \in 1..Len(line) : FunctionAt(line, i) THEN None
    ELSE Some(
         LET i == CHOOSE k \in 1..Len(line) :
                      FunctionAt(line, k) /\ \A j \in 1..(k - 1) : ~FunctionAt(line, j)
             a == CHOOSE k \in (i + 9)..Len(line) :
                      line[k] \in WordChars /\ \A j \in (i + 8)..(k - 1) : line[j] \in Whitespace
             b == CHOOSE k \in a..Len(line) :
                      /\ \A j \in a..k : line[j] \in WordChars
                      /\ (k = Len(line) \/ line[k + 1] \notin WordChars)
         IN  SubSeq(line, a, b))

\* the list is walked from its last entry
VisibilityLastListed(line) ==
    IF Contains(<<"e", "x", "t", "e", "r", "n", "a", "l">>, line) THEN "external"
    ELSE IF Contains(<<"i", "n", "t", "e", "r", "n", "a", "l">>, line) THEN "internal"
    ELSE IF Contains(<<"p", "r", "i", "v", "a", "t", "e">>, line) THEN "private"
    ELSE IF Contains(<<"p", "u", "b", "l", "i", "c">>, line) THEN "public"
    ELSE "unknown"

\* "view" is tested before "pure"
MutabilityViewFirst(line) ==
    IF Contains(<<"v", "i", "e", "w">>, line) THEN "view"
    ELSE IF Contains(<<"p", "u", "r", "e">>, line) THEN "pure"
    ELSE IF Contains(<<"p", "a", "y", "a", "b", "l", "e">>, line) THEN "payable"
    ELSE "nonpayable"

_extract_visibility(line) ==
    IF Contains(<<"p", "u", "b", "l", "i", "c">>, line) THEN "public"
    ELSE IF Contains(<<"p", "r", "i", "v", "a", "t", "e">>, line) THEN "private"
    ELSE IF Contains(<<"i", "n", "t", "e", "r", "n", "a", "l">>, line) THEN "internal"
    ELSE IF Contains(<<"e", "x", "t", "e", "r", "n", "a", "l">>, line) THEN "external"
    ELSE "unknown"

_extract_state_mutability(line) ==
    IF Contains(<<"p", "u", "r", "e">>, line) THEN "pure"
    ELSE IF Contains(<<"v", "i", "e", "w">>, line) THEN "view"
    ELSE IF Contains(<<"p", "a", "y", "a", "b", "l", "e">>, line) THEN "payable"
    ELSE "nonpayable"

common_modifiers ==
    <<<<"p", "a", "y", "a", "b", "l", "e">>, <<"v", "i", "e", "w">>, <<"p", "u", "r", "e">>, <<"o", "n", "l", "y", "O", "w", "n", "e", "r">>, <<"n", "o", "n", "R", "e", "e", "n", "t", "r", "a", "n", "t">>,
      <<"w", "h", "e", "n", "N", "o", "t", "P", "a", "u", "s", "e", "d">>, <<"o", "n", "l", "y", "A", "d", "m", "i", "n">>, <<"o", "n", "l", "y", "M", "i", "n", "t", "e", "r">>>>

\* The modifiers found in the line, in the order of common_modifiers.
_extract_function_modifiers(line) ==
    SelectSeq(common_modifiers, LAMBDA modifier : Contains(modifier, line))

critical_keywords ==
    <<<<"m", "i", "n", "t">>, <<"b", "u", "r", "n">>, <<"t", "r", "a", "n", "s", "f", "e", "r">>, <<"w", "i", "t", "h", "d", "r", "a", "w">>, <<"d", "e", "p", "o", "s", "i", "t">>, <<"p", "a", "u", "s", "e">>,
      <<"u", "n", "p", "a", "u", "s", "e">>, <<"u", "p", "g", "r", "a", "d", "e">>, <<"d", "e", "s", "t", "r", "o", "y">>, <<"s", "e", "l", "f", "d", "e", "s", "t", "r", "u", "c", "t">>, <<"o", "w", "n", "e", "r">>,
      <<"a", "d", "m", "i", "n">>, <<"e", "m", "e", "r", "g", "e", "n", "c", "y">>, <<"r", "e", "s", "c", "u", "e">>>>

_is_critical_function(func_name, line) ==
    \E k \in 1..Len(critical_keywords) :
        \/ Contains(critical_keywords[k], Lower(func_name))
        \/ Contains(critical_keywords[k], Lower(line))

\* every record is given line number 1, and the two undefined calls are left out
AnalyzeAtLineOne(line, line_number, all_lines) ==
    LET func_match == FunctionName(line)
    IN  IF func_match = None THEN None
        ELSE Some([name |-> Val(func_match), line_number |-> 1])

\* _analyze_single_function: the body of the try block.  The calls
\* self._extract_function_parameters and self._extract_return_type name methods
\* the class does not define; the AttributeError is caught by the except clause,
\* which returns None.  parameters and return_type stand for the values of
\* those two calls.
_analyze_single_function(line, line_number, all_lines) ==
    LET func_match == FunctionName(line)
        func_name == Val(func_match)
    IN  IF func_match = None THEN None
        ELSE IF AttributeError("_extract_function_parameters") THEN None
        ELSE IF AttributeError("_extract_return_type") THEN None
        ELSE Some(
             [name |-> func_name,
              line_number |-> line_number,
              signature |-> Strip(line),
              visibility |-> _extract_visibility(line),
              state_mutability |-> _extract_state_mutability(line),
              modifiers |-> _extract_function_modifiers(line),
              parameters |-> <<>>,
              return_type |-> None,
              is_payable |-> Contains(<<"p", "a", "y", "a", "b", "l", "e">>, line),
              is_critical |-> _is_critical_function(func_name, line)])

\* functions.append(func_info) without the test of func_info
RECURSIVE ExtractKeepingFailed(_, _)
ExtractKeepingFailed(lines, i) ==
    IF i > Len(lines) THEN <<>>
    ELSE (IF IsFunctionLine(lines[i])
          THEN <<_analyze_single_function(lines[i], i, lines)>>
          ELSE <<>>)
         \o ExtractKeepingFailed(lines, i + 1)

\* one record for every declaration of a line (re.finditer), and the two
\* undefined calls are left out
RECURSIVE ExtractEveryDeclaration(_, _)
ExtractEveryDeclaration(lines, i) ==
    IF i > Len(lines) THEN <<>>
    ELSE LET declarations == {p \in 1..Len(lines[i]) : FunctionAt(lines[i], p)}
         IN  [k \in 1..Cardinality(declarations) |->
                 [name |-> Val(FunctionName(lines[i])),
                  line_number |-> i,
                  signature |-> Strip(lines[i])]]
             \o ExtractEveryDeclaration(lines, i + 1)

\* The loop over enumerate(lines), from line i on.
RECURSIVE ExtractFrom(_, _)
ExtractFrom(lines, i) ==
    IF i > Len(lines) THEN <<>>
    ELSE LET func_info == IF IsFunctionLine(lines[i])
                          THEN _analyze_single_function(lines[i], i, lines)
                          ELSE None
         IN  (IF func_info # None THEN <<Val(func_info)>> ELSE <<>>)
             \o ExtractFrom(lines, i + 1)

_extract_and_analyze_functions(code) == ExtractFrom(Split(code), 1)

-----------------------------------------------------------------------------
(* Floating point, in thousandths.  numpy's log and log2 are computed in   *)
(* binary fixed point with ten fractional bits; log(0) is -inf.            *)

RECURSIVE FloorLog2(_)
FloorLog2(x) == IF x < 2 THEN 0 ELSE 1 + FloorLog2(x \div 2)

RECURSIVE Pow2(_)
Pow2(k) == IF k = 0 THEN 1 ELSE 2 * Pow2(k - 1)

\* x scaled into [2^14, 2^15)
Mantissa(x) ==
    LET e == FloorLog2(x)
    IN  IF e <= 14 THEN x * Pow2(14 - e) ELSE x \div Pow2(e - 14)

\* The k leading fractional bits of log2 of the mantissa m, by repeated squaring.
RECURSIVE FracBits(_, _)
FracBits(m, k) ==
    IF k = 0 THEN 0
    ELSE LET sq == (m * m) \div 16384
         IN  IF sq >= 32768 THEN Pow2(k - 1) + FracBits(sq \div 2, k - 1)
             ELSE FracBits(sq, k - 1)

\* log2(x) for an integer x >= 1, in 1/1024.
Log2Fx(x) == FloorLog2(x) * 1024 + FracBits(Mantissa(x), 10)

\* An extended real: inf = -1 for -inf, 1 for +inf, 0 for the finite value milli/1000.
Finite(m) == [inf |-> 0, milli |-> m]
NegInf == [inf |-> -1, milli |-> 0]
PosInf == [inf |-> 1, milli |-> 0]

\* np.log2(n) for an integer n >= 1, in thousandths.
NpLog2(n) == (Log2Fx(n) * 1000) \div 1024

\* np.log(x) for x = xm/1000 >= 0: -inf at 0 (numpy warns and goes on).
NpLog(xm) ==
    IF xm = 0 THEN NegInf
    ELSE Finite(((Log2Fx(xm) - Log2Fx(1000)) * 6769) \div 10000)

\* a - (p/q) * b on extended reals, a finite or +inf, p/q > 0
SubScaled(a, p, q, b) ==
    IF a.inf # 0 THEN a
    ELSE IF b.inf = -1 THEN PosInf
    ELSE IF b.inf = 1 THEN NegInf
    ELSE Finite(a.milli - (p * b.milli) \div q)

\* max(0, min(100, mi)) in thousandths
Clamp(mi) ==
    IF mi.inf = 1 THEN 100000
    ELSE IF mi.inf = -1 THEN 0
    ELSE Max(0, Min(100000, mi.milli))

-----------------------------------------------------------------------------
(* Complexity analyzer.                                                    *)

complexity_indicators ==
    <<<<"i", "f">>, <<"e", "l", "s", "e">>, <<"f", "o", "r">>, <<"w", "h", "i", "l", "e">>, <<"c", "a", "s", "e">>, <<"&", "&">>, <<"|", "|">>, <<"?">>>>

\* The loop over complexity_indicators, from indicator k on.
RECURSIVE CountIndicators(_, _)
CountIndicators(code, k) ==
    IF k > Len(complexity_indicators) THEN 0
    ELSE Count(code, complexity_indicators[k]) + CountIndicators(code, k + 1)

\* complexity starts at 0
CyclomaticFromZero(code) == CountIndicators(code, 1)

\* complexity is set back to 1 at every line, so that only the last line counts
CyclomaticOfLastLine(code) ==
    LET lines == Split(code) IN 1 + CountIndicators(lines[Len(lines)], 1)

_calculate_cyclomatic_complexity(code) == 1 + CountIndicators(code, 1)

\* the running depth is clamped at zero after each line
RECURSIVE NestingClamped(_, _, _, _)
NestingClamped(lines, i, current_depth, max_depth) ==
    IF i > Len(lines) THEN max_depth
    ELSE LET opened == current_depth + Count(lines[i], <<"{">>)
         IN  NestingClamped(lines, i + 1, Max(0, opened - Count(lines[i], <<"}">>)),
                            Max(max_depth, opened))

\* The loop over the lines, from line i on, with the running depth and maximum.
RECURSIVE NestingFrom(_, _, _, _)
NestingFrom(lines, i, current_depth, max_depth) ==
    IF i > Len(lines) THEN max_depth
    ELSE LET stripped == Strip(lines[i])
             opened == current_depth + Count(stripped, <<"{">>)
             max1 == IF Contains(<<"{">>, stripped) THEN Max(max_depth, opened)
                     ELSE max_depth
         IN  NestingFrom(lines, i + 1, opened - Count(stripped, <<"}">>), max1)

\* the depth after the last line is returned in place of the maximum
RECURSIVE DepthAfter(_, _)
DepthAfter(lines, i) ==
    IF i > Len(lines) THEN 0
    ELSE Count(Strip(lines[i]), <<"{">>) - Count(Strip(lines[i]), <<"}">>)
         + DepthAfter(lines, i + 1)
NestingAfterLastLine(lines) == DepthAfter(lines, 1)

_calculate_max_nesting_depth(lines) == NestingFrom(lines, 1, 0, 0)

\* re.findall(r'[+\-*/=<>!&|^%]', code)
Operators(code) == SelectSeq(code, LAMBDA c : c \in OperatorChars)

\* re.findall(r'\b\w+\b', code): the maximal runs of word characters, from i on.
RECURSIVE OperandsFrom(_, _)
OperandsFrom(code, i) ==
    IF i > Len(code) THEN <<>>
    ELSE IF code[i] \notin WordChars THEN OperandsFrom(code, i + 1)
    ELSE LET b == CHOOSE k \in i..Len(code) :
                      /\ \A j \in i..k : code[j] \in WordChars
                      /\ (k = Len(code) \/ code[k + 1] \notin WordChars)
         IN  <<SubSeq(code, i, b)>> \o OperandsFrom(code, b + 1)

Operands(code) == OperandsFrom(code, 1)

\* set(xs)
SetOf(xs) == {xs[i] : i \in 1..Len(xs)}

\* a * b / 1000 for two non-negative values in thousandths
MulMilli(a, b) == a * (b \div 1000) + (a * (b % 1000)) \div 1000

\* the zero guard tests the operands only
HalsteadGuardingOperands(code) ==
    LET operators == Operators(code)
        operands == Operands(code)
        n1 == Cardinality(SetOf(operators))
        n2 == Cardinality(SetOf(operands))
        N1 == Len(operators)
        N2 == Len(operands)
    IN  IF n2 = 0 THEN [volume |-> 0, difficulty |-> 0, effort |-> 0]
        ELSE LET volume == (N1 + N2) * NpLog2(n1 + n2)
                 difficulty == (1000 * n1 * N2) \div (2 * n2)
             IN  [volume |-> volume,
                  difficulty |-> difficulty,
                  effort |-> MulMilli(difficulty, volume)]

_calculate_halstead_metrics(code) ==
    LET operators == Operators(code)
        operands == Operands(code)
        n1 == Cardinality(SetOf(operators))
        n2 == Cardinality(SetOf(operands))
        N1 == Len(operators)
        N2 == Len(operands)
    IN  IF n1 = 0 \/ n2 = 0 THEN [volume |-> 0, difficulty |-> 0, effort |-> 0]
        ELSE LET volume == (N1 + N2) * NpLog2(n1 + n2)
                 difficulty == (1000 * n1 * N2) \div (2 * n2)
             IN  [volume |-> volume,
                  difficulty |-> difficulty,
                  effort |-> MulMilli(difficulty, volume)]

\* In thousandths; the early return 0 and the clamped value.
_calculate_maintainability_index(lines_of_code, cyclomatic, halstead) ==
    IF lines_of_code = 0 THEN 0
    ELSE LET halstead_volume == halstead.volume
             mi == SubScaled(
                       SubScaled(
                           SubScaled(Finite(171000), 52, 10, NpLog(halstead_volume)),
                           23, 100, Finite(1000 * cyclomatic)),
                       162, 10, NpLog(1000 * lines_of_code))
         IN  Clamp(mi)

\* _calculate_complexity_metrics: the call
\* self._calculate_function_complexity_distribution names a method the class does
\* not define, and nothing here catches the AttributeError.
_calculate_complexity_metrics(code, function_list) ==
    LET lines == Split(code)
        cyclomatic == _calculate_cyclomatic_complexity(code)
        nesting == _calculate_max_nesting_depth(lines)
    IN  IF AttributeError("_calculate_function_complexity_distribution")
        THEN [raised |-> "AttributeError",
              attribute |-> "_calculate_function_complexity_distribution"]
        ELSE LET halstead == _calculate_halstead_metrics(code)
             IN  [cyclomatic_complexity |-> cyclomatic,
                  max_nesting_depth |-> nesting,
                  halstead_metrics |-> halstead,
                  maintainability_index |->
                      _calculate_maintainability_index(Len(lines), cyclomatic, halstead)]

-----------------------------------------------------------------------------
(* Result assembler.                                                       *)

\* Sum and maximum of the line lengths.
RECURSIVE SumLen(_)
SumLen(lines) == IF lines = <<>> THEN 0 ELSE Len(Head(lines)) + SumLen(Tail(lines))

RECURSIVE MaxLen(_)
MaxLen(lines) == IF lines = <<>> THEN 0 ELSE Max(Len(Head(lines)), MaxLen(Tail(lines)))

\* average_line_length is np.mean of the lengths, in thousandths.
_analyze_basic_structure(code) ==
    LET lines == Split(code)
        non_empty_lines == SelectSeq(lines, LAMBDA line : Strip(line) # <<>>)
        comment_lines == SelectSeq(lines,
                             LAMBDA line : LET t == Strip(line)
                                           IN  Len(t) >= 2 /\ SubSeq(t, 1, 2) = <<"/", "/">>)
    IN  [total_lines |-> Len(lines),
         non_empty_lines |-> Len(non_empty_lines),
         comment_lines |-> Len(comment_lines),
         blank_lines |-> Len(lines) - Len(non_empty_lines),
         average_line_length |-> (1000 * SumLen(lines)) \div Len(lines),
         max_line_length |-> MaxLen(lines)]

\* The first position from i on whose character is outside the class (one past the
\* end when there is none): the end of a greedy \s+ or \w+.
RECURSIVE SkipWhile(_, _, _)
SkipWhile(code, i, class) ==
    IF i > Len(code) \/ code[i] \notin class THEN i
    ELSE SkipWhile(code, i + 1, class)

\* The last position of the match of pragma\s+\w+\s+[^;]+; that starts at
\* position i, 0 when there is none.  The match ends at the first semicolon after
\* the word; \s+ and [^;]+ need one character each before it.
PragmaEnd(code, i) ==
    IF ~(i + 5 <= Len(code) /\ SubSeq(code, i, i + 5) = <<"p", "r", "a", "g", "m", "a">>) THEN 0
    ELSE LET w1 == SkipWhile(code, i + 6, Whitespace)
             w2 == SkipWhile(code, w1, WordChars)
             semicolons == {p \in w2..Len(code) : code[p] = ";"}
         IN  IF w1 = i + 6 \/ w2 = w1 \/ w2 > Len(code) THEN 0
             ELSE IF code[w2] \notin Whitespace \/ semicolons = {} THEN 0
             ELSE LET p == CHOOSE q \in semicolons : \A r \in semicolons : q <= r
                  IN  IF p - w2 >= 2 THEN p ELSE 0

\* re.findall(r'pragma\s+\w+\s+[^;]+;', code): the non-overlapping matches, from
\* position i on.
RECURSIVE PragmaDirectivesFrom(_, _)
PragmaDirectivesFrom(code, i) ==
    IF i > Len(code) THEN <<>>
    ELSE LET p == PragmaEnd(code, i)
         IN  IF p = 0 THEN PragmaDirectivesFrom(code, i + 1)
             ELSE <<SubSeq(code, i, p)>> \o PragmaDirectivesFrom(code, p + 1)

\* The counts every dialect gets, and those added for Solidity.
CommonCounts(code) ==
    [contracts_count |-> Count(code, <<"c", "o", "n", "t", "r", "a", "c", "t", " ">>),
     interfaces_count |-> Count(code, <<"i", "n", "t", "e", "r", "f", "a", "c", "e", " ">>),
     libraries_count |-> Count(code, <<"l", "i", "b", "r", "a", "r", "y", " ">>),
     functions_count |-> Count(code, <<"f", "u", "n", "c", "t", "i", "o", "n", " ">>),
     modifiers_count |-> Count(code, <<"m", "o", "d", "i", "f", "i", "e", "r", " ">>),
     events_count |-> Count(code, <<"e", "v", "e", "n", "t", " ">>),
     structs_count |-> Count(code, <<"s", "t", "r", "u", "c", "t", " ">>),
     enums_count |-> Count(code, <<"e", "n", "u", "m", " ">>),
     imports_count |-> Count(code, <<"i", "m", "p", "o", "r", "t", " ">>),
     pragma_directives |-> PragmaDirectivesFrom(code, 1)]

SolidityCounts(code) ==
    [mappings_count |-> Count(code, <<"m", "a", "p", "p", "i", "n", "g", "(">>),
     arrays_count |-> Count(code, <<"[", "]">>),
     inheritance_count |-> Count(code, <<" ", "i", "s", " ">>),
     using_statements |-> Count(code, <<"u", "s", "i", "n", "g", " ">>),
     assembly_blocks |-> Count(code, <<"a", "s", "s", "e", "m", "b", "l", "y", " ", "{">>)]

\* the Solidity counts are added whatever the dialect
ParseAstOfAnyDialect(code, language) == SolidityCounts(code) @@ CommonCounts(code)

_parse_contract_ast(code, language) ==
    IF Lower(language) = <<"s", "o", "l", "i", "d", "i", "t", "y">>
    THEN SolidityCounts(code) @@ CommonCounts(code)
    ELSE CommonCounts(code)

\* The methods process_smart_contract calls on self, in call order.
ProcessCalls ==
    <<"_analyze_basic_structure", "_parse_contract_ast", "_extract_and_analyze_functions",
      "_analyze_dependencies", "_detect_security_patterns", "_calculate_complexity_metrics",
      "_analyze_state_variables", "_analyze_events", "_analyze_modifiers",
      "_analyze_inheritance", "_assess_code_quality">>

\* The first call of the sequence that raises AttributeError, "None" when none does.
FirstUndefined(calls) ==
    IF \A i \in 1..Len(calls) : ~AttributeError(calls[i]) THEN "None"
    ELSE calls[CHOOSE i \in 1..Len(calls) :
                   AttributeError(calls[i]) /\ \A j \in 1..(i - 1) : ~AttributeError(calls[j])]

\* str(e) carrying the time of the failure
ErrorResultTimed(attribute, t) ==
    [error |-> <<"'MultimodalInputProcessor' object has no attribute", attribute, t>>,
     timestamp |-> t]

\* The value of the except clause: {"error": str(e), "timestamp": now}.
ErrorResult(attribute, t) ==
    [error |-> <<"'MultimodalInputProcessor' object has no attribute", attribute>>,
     timestamp |-> t]

\* process_smart_contract called at time t.  Every exception of the try block is
\* turned into the error record.  The fields of the result whose methods the
\* class does not define are not part of the record below.
process_smart_contract(keyword_table, code, language, t) ==
    LET raising == FirstUndefined(ProcessCalls)
        no_call == "None"
        function_list == _extract_and_analyze_functions(code)
        complexity == _calculate_complexity_metrics(code, function_list)
    IN  IF raising # no_call /\ raising # "_calculate_complexity_metrics"
        THEN ErrorResult(raising, t)
        ELSE IF "raised" \in DOMAIN complexity
        THEN ErrorResult(complexity.attribute, t)
        ELSE [contract_code |-> code,
              language |-> language,
              basic_analysis |-> _analyze_basic_structure(code),
              functions |-> function_list,
              security_patterns |-> _detect_security_patterns(keyword_table, code),
              complexity_metrics |-> complexity,
              code_hash |-> [sha256 |-> code],
              processing_timestamp |-> t]

-----------------------------------------------------------------------------
(* Source texts of the model.                                              *)

WithdrawLine == <<"f", "u", "n", "c", "t", "i", "o", "n", " ", "w", "i", "t", "h", "d", "r", "a", "w", "(", ")", " ", "p", "u", "b", "l", "i", "c", " ", "{", " ", "m", "s", "g", ".", "s", "e", "n", "d", "e", "r", ".", "c", "a", "l", "l", "(", "'", "'", ")", ";", " ", "}">>
AccessLine == <<"m", "o", "d", "i", "f", "i", "e", "r", " ", "o", "n", "l", "y", "O", "w", "n", "e", "r", " ", "{", " ", "r", "e", "q", "u", "i", "r", "e", "(", "m", "s", "g", ".", "s", "e", "n", "d", "e", "r", " ", "=", "=", " ", "o", "w", "n", "e", "r", ")", ";", " ", "}">>

\* Categories handed to _assess_pattern_risk_level: those of the keyword table and
\* one the table does not hold.
RiskCategories == {PatternTypes[k] : k \in 1..Len(PatternTypes)} \cup {"custom"}

\* Texts handed to process_smart_contract.
ProcessFragments == {WithdrawLine, <<"\n">>, <<" ">>}
\* Texts handed to the function extractor.
FunctionFragments == {WithdrawLine, <<"\n">>, <<"f", "u", "n", "c", "t", "i", "o", "n", " ", "f">>, <<" ", "p", "a", "y", "a", "b", "l", "e">>, <<"x">>}
\* Texts handed to the pattern detector.
PatternFragments == {WithdrawLine, AccessLine, <<"\n">>, <<"s", "e", "l", "f", "d", "e", "s", "t", "r", "u", "c", "t", "(", "o", "w", "n", "e", "r", ")", ";">>, <<"u", "i", "n", "t", " ", "x", ";">>}
\* Texts handed to the complexity analyzer.
ComplexityFragments == {<<"i", "f", " ", "(", "a", " ", "&", "&", " ", "b", ")", " ", "{", " ", "x", " ", "+", "=", " ", "1", ";">>, <<"}">>, <<"\n">>}
\* Texts handed to the cyclomatic counter and the texts appended to them.
CyclomaticFragments == {<<"&">>, <<"|">>, <<"e", "l">>}
\* Texts handed to the Halstead counter: operators, operands and separators.
HalsteadFragments == {<<"+">>, <<"=">>, <<"x">>, <<"y", "1">>, <<" ">>}

\* Texts handed to the two attribute extractors: a declaration and the words
\* they look for.
AttributeFragments ==
    {<<"f", "u", "n", "c", "t", "i", "o", "n", " ", "f", "(", ")">>, <<" ", "p", "u", "r", "e">>, <<" ", "v", "i", "e", "w">>, <<" ", "p", "a", "y", "a", "b", "l", "e">>,
     <<" ", "p", "u", "b", "l", "i", "c">>, <<" ", "p", "r", "i", "v", "a", "t", "e">>, <<" ", "i", "n", "t", "e", "r", "n", "a", "l">>, <<" ", "e", "x", "t", "e", "r", "n", "a", "l">>}

\* Texts handed to the pattern detector to compare its categories: lines with two
\* keywords of one category, with one keyword twice, and with one hit.
StaticcallLine == <<"a", ".", "s", "t", "a", "t", "i", "c", "c", "a", "l", "l", "(", "b", ")", ";">>
CallValueLine == <<"a", ".", "c", "a", "l", "l", ".", "v", "a", "l", "u", "e", "(", "1", ")", ";">>
GasLine == <<"g", "a", "s", " ", "g", "a", "s", ";">>
DetectorFragments ==
    {StaticcallLine, CallValueLine, GasLine, <<"s", "e", "l", "f", "d", "e", "s", "t", "r", "u", "c", "t", "(", "o", ")", ";">>, <<"a", "s", "s", "e", "m", "b", "l", "y", " ", "{">>, <<"\n">>}

AppendFragments == {complexity_indicators[k] : k \in 1..Len(complexity_indicators)}
                   \cup {<<"\n">>, <<"s", "e">>}

-----------------------------------------------------------------------------
(* Audit framework (framework/audit_framework.py), knowledge base            *)
(* (core/knowledge_base.py) and learning system                             *)
(* (learning/continuous_learning.py).  A text of the knowledge base is the  *)
(* sequence of its characters, each written as its code point.              *)

\* dict.get(key, default), dict.update(other) and the empty dict.
Get(dict, key, default) == IF key \in DOMAIN dict THEN dict[key] ELSE default
Update(dict, other) == other @@ dict
EmptyDict == <<>>

\* The first method each document processor calls on self that the class does
\* not define; the except clause of the processor returns the error record.
FirstUndefinedOf ==
    [legal_documents |-> "_extract_key_terms",
     asset_proofs |-> "_assess_asset_risk",
     transactions |-> "_analyze_transaction_patterns"]

\* process_legal_documents, process_asset_proofs and process_transaction_history
\* on a list that is not empty, at time t.
process_documents(key, t) ==
    IF AttributeError(FirstUndefinedOf[key]) THEN ErrorResult(FirstUndefinedOf[key], t)
    ELSE [timestamp |-> t]

\* Stage 1 of audit_contract: the record of process_smart_contract, updated with
\* the record of each document processor whose key contract_data holds.
DocumentKeys == <<"legal_documents", "asset_proofs", "transactions">>

RECURSIVE UpdateFrom(_, _, _, _)
UpdateFrom(processed, contract_data, k, t) ==
    IF k > Len(DocumentKeys) THEN processed
    ELSE UpdateFrom(IF DocumentKeys[k] \in contract_data.keys
                    THEN Update(processed, process_documents(DocumentKeys[k], t))
                    ELSE processed,
                    contract_data, k + 1, t)

InputProcessing(keyword_table, contract_data, t) ==
    LET code == IF "contract_code" \in contract_data.keys THEN contract_data.contract_code
                ELSE <<>>
    IN  UpdateFrom(process_smart_contract(keyword_table, code, <<"s", "o", "l", "i", "d", "i", "t", "y">>, t),
                   contract_data, 1, t)

\* RWAKnowledgeBase._init_cases and _init_best_practices: the fields
\* enhance_findings reads.
_init_cases ==
    <<[name |-> "Terra Luna Collapse", vuln_type |-> <<"U+7D93", "U+6FDF", "U+6A21", "U+578B", "U+7F3A", "U+9677">>],
      [name |-> "Iron Finance Bank Run", vuln_type |-> <<"U+6D41", "U+52D5", "U+98A8", "U+96AA">>],
      [name |-> "Poly Network Hack", vuln_type |-> <<"U+6A4B", "U+63A5", "U+5408", "U+7D04", "U+6F0F", "U+6D1E">>]>>

_init_best_practices ==
    <<[category |-> <<"U+5408", "U+7D04", "U+5B89", "U+5168">>, name |-> <<"U+591A", "U+91CD", "U+7C3D", "U+540D", "U+7BA1", "U+7406">>],
      [category |-> <<"U+8CC7", "U+7522", "U+4EE3", "U+5E63", "U+5316">>, name |-> <<"U+900F", "U+660E", "U+5316", "U+8A17", "U+7BA1">>],
      [category |-> <<"U+5408", "U+898F", "U+76E3", "U+63A7">>, name |-> <<"U+52D5", "U+614B", "U+5408", "U+898F", "U+76E3", "U+63A7">>]>>

\* next((x for x in xs if test(x)), None), given the value of the test on each x.
FirstWhere(xs, tests) ==
    IF \A i \in 1..Len(xs) : ~tests[i] THEN None
    ELSE Some(xs[CHOOSE i \in 1..Len(xs) : tests[i] /\ \A j \in 1..(i - 1) : ~tests[j]])

\* The body of the loop of enhance_findings on one finding.
EnhanceFinding(finding) ==
    LET vt == finding.vulnerability_type
        case == FirstWhere(_init_cases,
                    [i \in 1..Len(_init_cases) |-> Contains(vt, _init_cases[i].vuln_type)])
        bp == FirstWhere(_init_best_practices,
                  [i \in 1..Len(_init_best_practices) |->
                      Contains(SubSeq(vt, 1, Min(2, Len(vt))), _init_best_practices[i].category)])
    IN  [finding EXCEPT
            !.description = IF case # None
                            THEN Append(@, [reference_case |-> Val(case).name]) ELSE @,
            !.recommendation = IF bp # None
                               THEN Append(@, [advice |-> Val(bp).name]) ELSE @]

enhance_findings(findings) == [i \in 1..Len(findings) |-> EnhanceFinding(findings[i])]

\* Sum of a sequence of numbers.
RECURSIVE Sum(_)
Sum(xs) == IF xs = <<>> THEN 0 ELSE Head(xs) + Sum(Tail(xs))

\* any drop of the mean accuracy triggers the update (performance_threshold 0)
ShouldUpdateOnAnyDrop(history) ==
    IF Len(history) < 5 THEN FALSE
    ELSE LET accuracies == [i \in 1..Len(history) |-> history[i].accuracy]
             recent == SubSeq(accuracies, Len(history) - 4, Len(history))
             prev == SubSeq(accuracies, 1, Len(history) - 5)
         IN  IF prev = <<>> THEN FALSE
             ELSE 5 * Sum(prev) - Len(prev) * Sum(recent) > 0

\* _should_update_model on a history of metrics: np.mean of the accuracies
\* before the last five minus np.mean of the last five exceeds
\* performance_threshold (0.1).  np.mean of an empty list is nan, and a
\* comparison with nan is False.
_should_update_model(history) ==
    IF Len(history) < 5 THEN FALSE
    ELSE LET accuracies == [i \in 1..Len(history) |-> history[i].accuracy]
             recent == SubSeq(accuracies, Len(history) - 4, Len(history))
             prev == SubSeq(accuracies, 1, Len(history) - 5)
         IN  IF prev = <<>> THEN FALSE
             ELSE 5 * Sum(prev) - Len(prev) * Sum(recent) > 100 * 5 * Len(prev)

\* monitor_performance(predictions, ground_truth, processing_time) at time t:
\* the metrics, in thousandths, the history with the metrics appended and the
\* model versions after _update_model.
monitor_performance(predictions, ground_truth, processing_time, history, versions, t) ==
    LET truth_set == {<<ground_truth[i].vulnerability_type, ground_truth[i].location>> :
                         i \in 1..Len(ground_truth)}
        pred_set == {<<predictions[i].vulnerability_type, predictions[i].location>> :
                        i \in 1..Len(predictions)}
        tp == Cardinality(truth_set \cap pred_set)
        fp == Cardinality(pred_set \ truth_set)
        fn == Cardinality(truth_set \ pred_set)
        metrics ==
            [timestamp |-> t,
             accuracy |-> IF truth_set # {} THEN (1000 * tp) \div Cardinality(truth_set) ELSE 0,
             false_positive_rate |->
                 IF predictions # <<>> THEN (1000 * fp) \div Len(predictions) ELSE 0,
             coverage_rate |-> IF tp + fn > 0 THEN (1000 * tp) \div (tp + fn) ELSE 0,
             processing_time |-> processing_time]
        appended_history == Append(history, metrics)
    IN  [metrics |-> metrics,
         performance_history |-> appended_history,
         model_versions |-> IF _should_update_model(appended_history)
                            THEN Append(versions, <<Len(versions) + 1, t>>)
                            ELSE versions]

\* The keys of an audit report.
ReportKeys ==
    {"audit_id", "timestamp", "contract_summary", "asset_summary", "compliance",
     "security_findings", "performance", "statistics", "recommendations"}

\* Stages 2 and 3 of audit_contract: the findings of the inference engine, [] when
\* the stage raises, enhanced by the knowledge base unless that stage raises.
EnhancedFindings(findings, inference_fails, enhancement_fails) ==
    IF inference_fails THEN <<>>
    ELSE IF enhancement_fails THEN findings
    ELSE enhance_findings(findings)

\* Stage 6 of audit_contract when perf_metrics is {}: the report.
AuditReport(processed, enhanced_findings, audits, t) ==
    [audit_id |-> t,
     timestamp |-> t,
     contract_summary |->
         [lang |-> Get(processed, "language", "unknown"),
          lines |-> Get(Get(processed, "basic_analysis", EmptyDict), "total_lines", 0),
          functions |-> Len(Get(processed, "functions", <<>>))],
     asset_summary |->
         [total_value |-> Get(processed, "total_value", 0),
          verification_rate |-> Get(processed, "verification_rate", 1000)],
     compliance |->
         [score |-> Get(processed, "average_compliance_score", 0),
          legal_frameworks |-> Get(processed, "regulatory_frameworks", <<>>)],
     security_findings |-> enhanced_findings,
     performance |-> EmptyDict,
     statistics |-> [total_audits |-> Len(audits) + 1, average_processing_time |-> None],
     recommendations |->
         [i \in 1..Len(enhanced_findings) |-> enhanced_findings[i].recommendation]]

\* The end of audit_contract when the report was built: it is appended to the
\* statistics and returned.
ReportReturned(audit_report, stats, history, versions) ==
    [outcome |-> audit_report,
     performance_history |-> history,
     model_versions |-> versions,
     statistics |-> [audits |-> Append(stats.audits, audit_report),
                     total_processed |-> stats.total_processed + 1]]

\* the call is counted before the report is built
ReportRaisedCounted(monitored, stats) ==
    [outcome |-> [raised |-> "AttributeError", attribute |-> "get"],
     performance_history |-> monitored.performance_history,
     model_versions |-> monitored.model_versions,
     statistics |-> [stats EXCEPT !.total_processed = @ + 1]]

\* The end of audit_contract when monitor_performance returned: perf_metrics is a
\* PerformanceMetrics object, which is not a dict, is truthy and has no attribute
\* get, so building the report raises AttributeError outside every try block,
\* after the history was extended.
ReportRaised(monitored, stats) ==
    [outcome |-> [raised |-> "AttributeError", attribute |-> "get"],
     performance_history |-> monitored.performance_history,
     model_versions |-> monitored.model_versions,
     statistics |-> stats]

\* audit_contract at time t.  findings is the list analyze_contract returns; each
\* of the three flags says that the stage raises, and the except clause of the
\* stage then supplies its default ([] for the findings, the findings as they are
\* for the enhancement, {} for perf_metrics).
audit_contract(contract_data, findings, inference_fails, enhancement_fails, monitoring_fails, t) ==
    LET enhanced_findings == EnhancedFindings(findings, inference_fails, enhancement_fails)
    IN  IF monitoring_fails
        THEN ReportReturned(
                 AuditReport(InputProcessing(security_keywords, contract_data, t),
                             enhanced_findings, statistics.audits, t),
                 statistics, performance_history, model_versions)
        ELSE ReportRaised(
                 monitor_performance(enhanced_findings, enhanced_findings, 0,
                                     performance_history, model_versions, t),
                 statistics)

\* Texts handed to the structural counter, the line statistics and the modifier
\* extractor, and the dialects they are declared with.
PragmaLine == <<"p", "r", "a", "g", "m", "a", " ", "s", "o", "l", "i", "d", "i", "t", "y", " ", "^", "0", ".", "8", ".", "0", ";">>
MappingLine == <<"c", "o", "n", "t", "r", "a", "c", "t", " ", "A", " ", "{", " ", "m", "a", "p", "p", "i", "n", "g", "(">>
ViewerLine == <<"f", "u", "n", "c", "t", "i", "o", "n", " ", "v", "i", "e", "w", "e", "r", "(", ")", " ", "p", "u", "b", "l", "i", "c">>
StructureFragments == {PragmaLine, MappingLine, ViewerLine, <<" ", "v", "i", "e", "w">>, <<"\n">>}
Dialects == {<<"s", "o", "l", "i", "d", "i", "t", "y">>, <<"S", "o", "l", "i", "d", "i", "t", "y">>, <<"v", "y", "p", "e", "r">>, <<"r", "u", "s", "t">>}

\* Halstead volumes handed to _calculate_maintainability_index directly, in
\* thousandths: that of a text without operators or operands, and that of "a = b".
Volumes == {0, 4754}

\* The mappings handed to audit_contract: the keys they hold and their
\* contract_code; the findings of the inference engine.
ContractData ==
    {[keys |-> keys, contract_code |-> WithdrawLine] :
        keys \in {{}, {"contract_code"},
                  {"contract_code", "legal_documents", "asset_proofs", "transactions"}}}

Finding(vulnerability_type) ==
    [vulnerability_type |-> vulnerability_type, location |-> "Line 10",
     description |-> <<"...">>, recommendation |-> <<"...">>]

FindingLists == {<<>>, <<Finding(<<"U+91CD", "U+5165", "U+653B", "U+64CA">>)>>, <<Finding(<<"U+5408", "U+7D04", "U+6F0F", "U+6D1E">>)>>}

-----------------------------------------------------------------------------
(* The state machine: a caller holding one processor and one source text.  *)

\* The predictions and ground truth handed to monitor_performance directly: all
\* of two true findings predicted, one of the two, none.
MonitoredCalls ==
    LET reentrancy == Finding(<<"U+91CD", "U+5165", "U+653B", "U+64CA">>)
        vulnerability == Finding(<<"U+5408", "U+7D04", "U+6F0F", "U+6D1E">>)
    IN  {[predictions |-> <<reentrancy, vulnerability>>,
          ground_truth |-> <<reentrancy, vulnerability>>],
         [predictions |-> <<reentrancy>>, ground_truth |-> <<reentrancy, vulnerability>>],
         [predictions |-> <<>>, ground_truth |-> <<reentrancy>>]}

InitWith(texts, appends, languages) ==
    /\ security_keywords = _init_security_keywords
    /\ contract_code \in texts
    /\ appended \in appends
    /\ contract_language \in languages
    /\ now = 0
    /\ results = <<>>
    /\ functions = Unset
    /\ security_patterns = Unset
    /\ cyclomatic_complexity = Unset
    /\ cyclomatic_appended = Unset
    /\ max_nesting_depth = Unset
    /\ halstead_metrics = Unset
    /\ maintainability_index = Unset
    /\ complexity_metrics = Unset
    /\ risk_call = Unset
    /\ supported_languages = InitSupportedLanguages
    /\ compliance_keywords = _init_compliance_keywords
    /\ asset_type_mapping = _init_asset_type_mapping
    /\ risk_indicators = _init_risk_indicators
    /\ basic_analysis = Unset
    /\ ast_info = Unset
    /\ modifiers_call = Unset
    /\ index_call = Unset
    /\ mutability_call = Unset
    /\ visibility_call = Unset
    /\ statistics = [audits |-> <<>>, total_processed |-> 0]
    /\ performance_history = <<>>
    /\ model_versions = <<>>
    /\ audit_outcome = Unset

Init == InitWith(Texts(ProcessFragments, MaxFrags), {<<>>}, {<<"s", "o", "l", "i", "d", "i", "t", "y">>, <<"v", "y", "p", "e", "r">>})
InitFunctions == InitWith(Texts(FunctionFragments, MaxFrags), {<<>>}, {<<"s", "o", "l", "i", "d", "i", "t", "y">>})
InitPatterns == InitWith(Texts(PatternFragments, MaxFrags), {<<>>}, {<<"s", "o", "l", "i", "d", "i", "t", "y">>})
InitComplexity == InitWith(Texts(ComplexityFragments, MaxFrags), {<<>>}, {<<"s", "o", "l", "i", "d", "i", "t", "y">>})
InitCyclomatic == InitWith(Texts(CyclomaticFragments, MaxFrags),
                           Texts(AppendFragments, MaxAppend), {<<"s", "o", "l", "i", "d", "i", "t", "y">>})
InitStructure == InitWith(Texts(StructureFragments, MaxFrags), {<<>>}, Dialects)
InitHalstead == InitWith(Texts(HalsteadFragments, MaxFrags), {<<>>}, {<<"s", "o", "l", "i", "d", "i", "t", "y">>})

InitAttributes == InitWith(Texts(AttributeFragments, MaxFrags), {<<>>}, {<<"s", "o", "l", "i", "d", "i", "t", "y">>})

InitDetector == InitWith(Texts(DetectorFragments, MaxFrags), {<<>>}, {<<"s", "o", "l", "i", "d", "i", "t", "y">>})

InitRisk == InitWith({<<>>}, {<<>>}, {<<"s", "o", "l", "i", "d", "i", "t", "y">>})

\* Time passes.
Tick ==
    /\ now < MaxClock
    /\ now' = now + 1
    /\ UNCHANGED <<other_fields, direct_calls, framework,
                   security_keywords, contract_code, contract_language, appended, results,
                   functions, security_patterns, cyclomatic_complexity,
                   cyclomatic_appended, max_nesting_depth, halstead_metrics,
                   maintainability_index, complexity_metrics, risk_call>>

\* the call also drops the first category of the keyword table
ProcessSmartContractConsuming ==
    /\ Len(results) < MaxRuns
    /\ results' = Append(results,
           process_smart_contract(security_keywords, contract_code, contract_language, now))
    /\ security_keywords' = Tail(security_keywords)
    /\ UNCHANGED <<other_fields, direct_calls, framework,
                   contract_code, contract_language, appended, now,
                   functions, security_patterns, cyclomatic_complexity,
                   cyclomatic_appended, max_nesting_depth, halstead_metrics,
                   maintainability_index, complexity_metrics, risk_call>>

ProcessSmartContract ==
    /\ Len(results) < MaxRuns
    /\ results' = Append(results,
           process_smart_contract(security_keywords, contract_code, contract_language, now))
    /\ UNCHANGED <<other_fields, direct_calls, framework,
                   security_keywords, contract_code, contract_language, appended, now,
                   functions, security_patterns, cyclomatic_complexity,
                   cyclomatic_appended, max_nesting_depth, halstead_metrics,
                   maintainability_index, complexity_metrics, risk_call>>

ExtractAndAnalyzeFunctions ==
    /\ functions = Unset
    /\ functions' = Returned(_extract_and_analyze_functions(contract_code))
    /\ UNCHANGED <<other_fields, direct_calls, framework,
                   security_keywords, contract_code, contract_language, appended, now,
                   results, security_patterns, cyclomatic_complexity,
                   cyclomatic_appended, max_nesting_depth, halstead_metrics,
                   maintainability_index, complexity_metrics, risk_call>>

DetectSecurityPatterns ==
    /\ security_patterns = Unset
    /\ security_patterns' = Returned(_detect_security_patterns(security_keywords, contract_code))
    /\ UNCHANGED <<other_fields, direct_calls, framework,
                   security_keywords, contract_code, contract_language, appended, now,
                   results, functions, cyclomatic_complexity,
                   cyclomatic_appended, max_nesting_depth, halstead_metrics,
                   maintainability_index, complexity_metrics, risk_call>>

AssessPatternRiskLevel ==
    \E pattern_type \in RiskCategories, count \in 0..MaxCount :
        /\ risk_call' = Returned(
               [pattern_type |-> pattern_type,
                count |-> count,
                risk_level |-> _assess_pattern_risk_level(pattern_type, count)])
        /\ UNCHANGED <<other_fields, direct_calls, framework,
                       security_keywords, contract_code, contract_language, appended, now,
                       results, functions, security_patterns, cyclomatic_complexity,
                       cyclomatic_appended, max_nesting_depth, halstead_metrics,
                       maintainability_index, complexity_metrics>>

CalculateCyclomaticComplexity ==
    /\ cyclomatic_complexity = Unset
    /\ cyclomatic_complexity' = Returned(_calculate_cyclomatic_complexity(contract_code))
    /\ UNCHANGED <<other_fields, direct_calls, framework,
                   security_keywords, contract_code, contract_language, appended, now,
                   results, functions, security_patterns,
                   cyclomatic_appended, max_nesting_depth, halstead_metrics,
                   maintainability_index, complexity_metrics, risk_call>>

\* The same method on the text with the appended part.
CalculateCyclomaticAppended ==
    /\ cyclomatic_appended = Unset
    /\ cyclomatic_appended' = Returned(_calculate_cyclomatic_complexity(contract_code \o appended))
    /\ UNCHANGED <<other_fields, direct_calls, framework,
                   security_keywords, contract_code, contract_language, appended, now,
                   results, functions, security_patterns, cyclomatic_complexity,
                   max_nesting_depth, halstead_metrics,
                   maintainability_index, complexity_metrics, risk_call>>

CalculateMaxNestingDepth ==
    /\ max_nesting_depth = Unset
    /\ max_nesting_depth' = Returned(_calculate_max_nesting_depth(Split(contract_code)))
    /\ UNCHANGED <<other_fields, direct_calls, framework,
                   security_keywords, contract_code, contract_language, appended, now,
                   results, functions, security_patterns, cyclomatic_complexity,
                   cyclomatic_appended, halstead_metrics,
                   maintainability_index, complexity_metrics, risk_call>>

CalculateHalsteadMetrics ==
    /\ halstead_metrics = Unset
    /\ halstead_metrics' = Returned(_calculate_halstead_metrics(contract_code))
    /\ UNCHANGED <<other_fields, direct_calls, framework,
                   security_keywords, contract_code, contract_language, appended, now,
                   results, functions, security_patterns, cyclomatic_complexity,
                   cyclomatic_appended, max_nesting_depth,
                   maintainability_index, complexity_metrics, risk_call>>

\* The index of the text, from the lines of its split and the two metrics
\* computed before, as _calculate_complexity_metrics passes them.
CalculateMaintainabilityIndex ==
    /\ maintainability_index = Unset
    /\ cyclomatic_complexity # Unset
    /\ halstead_metrics # Unset
    /\ maintainability_index' =
           Returned(_calculate_maintainability_index(Len(Split(contract_code)),
                        Val(cyclomatic_complexity), Val(halstead_metrics)))
    /\ UNCHANGED <<other_fields, direct_calls, framework,
                   security_keywords, contract_code, contract_language, appended, now,
                   results, functions, security_patterns, cyclomatic_complexity,
                   cyclomatic_appended, max_nesting_depth, halstead_metrics,
                   complexity_metrics, risk_call>>

CalculateComplexityMetrics ==
    /\ complexity_metrics = Unset
    /\ functions # Unset
    /\ complexity_metrics' = Returned(_calculate_complexity_metrics(contract_code, Val(functions)))
    /\ UNCHANGED <<other_fields, direct_calls, framework,
                   security_keywords, contract_code, contract_language, appended, now,
                   results, functions, security_patterns, cyclomatic_complexity,
                   cyclomatic_appended, max_nesting_depth, halstead_metrics,
                   maintainability_index, risk_call>>

AnalyzeBasicStructure ==
    /\ basic_analysis = Unset
    /\ basic_analysis' = Returned(_analyze_basic_structure(contract_code))
    /\ UNCHANGED <<other_fields, framework, attribute_calls, ast_info, modifiers_call, index_call,
                   security_keywords, contract_code, contract_language, appended, now,
                   results, functions, security_patterns, cyclomatic_complexity,
                   cyclomatic_appended, max_nesting_depth, halstead_metrics,
                   maintainability_index, complexity_metrics, risk_call>>

ParseContractAst ==
    /\ ast_info = Unset
    /\ ast_info' = Returned(_parse_contract_ast(contract_code, contract_language))
    /\ UNCHANGED <<other_fields, framework, attribute_calls, basic_analysis, modifiers_call, index_call,
                   security_keywords, contract_code, contract_language, appended, now,
                   results, functions, security_patterns, cyclomatic_complexity,
                   cyclomatic_appended, max_nesting_depth, halstead_metrics,
                   maintainability_index, complexity_metrics, risk_call>>

\* _extract_function_modifiers on one line of the text.
ExtractFunctionModifiers ==
    /\ modifiers_call = Unset
    /\ \E k \in 1..Len(Split(contract_code)) :
          LET line == Split(contract_code)[k]
          IN  modifiers_call' = Returned(
                  [line |-> line, modifiers |-> _extract_function_modifiers(line)])
    /\ UNCHANGED <<other_fields, framework, attribute_calls, basic_analysis, ast_info, index_call,
                   security_keywords, contract_code, contract_language, appended, now,
                   results, functions, security_patterns, cyclomatic_complexity,
                   cyclomatic_appended, max_nesting_depth, halstead_metrics,
                   maintainability_index, complexity_metrics, risk_call>>

\* _extract_state_mutability on one line of the text.
ExtractStateMutability ==
    /\ mutability_call = Unset
    /\ \E k \in 1..Len(Split(contract_code)) :
          LET line == Split(contract_code)[k]
          IN  mutability_call' = Returned(
                  [line |-> line, state_mutability |-> _extract_state_mutability(line)])
    /\ UNCHANGED <<other_fields, framework, basic_analysis, ast_info, modifiers_call,
                   index_call, visibility_call,
                   security_keywords, contract_code, contract_language, appended, now,
                   results, functions, security_patterns, cyclomatic_complexity,
                   cyclomatic_appended, max_nesting_depth, halstead_metrics,
                   maintainability_index, complexity_metrics, risk_call>>

\* _extract_visibility on one line of the text.
ExtractVisibility ==
    /\ visibility_call = Unset
    /\ \E k \in 1..Len(Split(contract_code)) :
          LET line == Split(contract_code)[k]
          IN  visibility_call' = Returned(
                  [line |-> line, visibility |-> _extract_visibility(line)])
    /\ UNCHANGED <<other_fields, framework, basic_analysis, ast_info, modifiers_call,
                   index_call, mutability_call,
                   security_keywords, contract_code, contract_language, appended, now,
                   results, functions, security_patterns, cyclomatic_complexity,
                   cyclomatic_appended, max_nesting_depth, halstead_metrics,
                   maintainability_index, complexity_metrics, risk_call>>

\* The caller turns to another contract and dialect.
SubmitContract ==
    /\ contract_code' \in Texts(ProcessFragments, MaxFrags - 1)
    /\ contract_language' \in {<<"s", "o", "l", "i", "d", "i", "t", "y">>, <<"v", "y", "p", "e", "r">>}
    /\ UNCHANGED <<other_fields, direct_calls, framework,
                   security_keywords, appended, now, results,
                   functions, security_patterns, cyclomatic_complexity,
                   cyclomatic_appended, max_nesting_depth, halstead_metrics,
                   maintainability_index, complexity_metrics, risk_call>>

\* _calculate_maintainability_index on a line count, a cyclomatic complexity and
\* a Halstead record of the caller's choice.
CalculateMaintainabilityIndexOf ==
    /\ index_call = Unset
    /\ \E lines_of_code \in 0..MaxLinesOfCode, cyclomatic \in 1..MaxComplexity,
       volume \in Volumes :
        /\ index_call' = Returned(
               [lines_of_code |-> lines_of_code,
                cyclomatic |-> cyclomatic,
                volume |-> volume,
                index |-> _calculate_maintainability_index(lines_of_code, cyclomatic,
                              [volume |-> volume, difficulty |-> 0, effort |-> 0])])
    /\ UNCHANGED <<other_fields, framework, attribute_calls, basic_analysis, ast_info, modifiers_call,
                   security_keywords, contract_code, contract_language, appended, now,
                   results, functions, security_patterns, cyclomatic_complexity,
                   cyclomatic_appended, max_nesting_depth, halstead_metrics,
                   maintainability_index, complexity_metrics, risk_call>>

\* monitor_performance called on the learning system directly.
MonitorPerformance ==
    /\ Len(performance_history) < MaxMonitored
    /\ \E call \in MonitoredCalls :
          LET monitored == monitor_performance(call.predictions, call.ground_truth, 0,
                                               performance_history, model_versions, now)
          IN  /\ performance_history' = monitored.performance_history
              /\ model_versions' = monitored.model_versions
    /\ UNCHANGED <<other_fields, direct_calls, statistics, audit_outcome,
                   security_keywords, contract_code, contract_language, appended, now,
                   results, functions, security_patterns, cyclomatic_complexity,
                   cyclomatic_appended, max_nesting_depth, halstead_metrics,
                   maintainability_index, complexity_metrics, risk_call>>

AuditContract ==
    /\ Len(performance_history) + statistics.total_processed < MaxAudits
    /\ \E contract_data \in ContractData, findings \in FindingLists,
          inference_fails \in BOOLEAN, enhancement_fails \in BOOLEAN,
          monitoring_fails \in BOOLEAN :
          LET call == audit_contract(contract_data, findings, inference_fails,
                                     enhancement_fails, monitoring_fails, now)
          IN  /\ audit_outcome' = Returned(call.outcome)
              /\ statistics' = call.statistics
              /\ performance_history' = call.performance_history
              /\ model_versions' = call.model_versions
    /\ UNCHANGED <<other_fields, direct_calls,
                   security_keywords, contract_code, contract_language, appended, now,
                   results, functions, security_patterns, cyclomatic_complexity,
                   cyclomatic_appended, max_nesting_depth, halstead_metrics,
                   maintainability_index, complexity_metrics, risk_call>>

\* process_smart_contract called repeatedly on one processor while time passes.
Next == ProcessSmartContract \/ Tick
Spec == Init /\ [][Next]_vars

\* Invocations on one processor for one contract after another.
NextShared == ProcessSmartContract \/ SubmitContract \/ Tick
SpecShared == Init /\ [][NextShared]_vars

\* The function extractor on its own.
NextFunctions == ExtractAndAnalyzeFunctions
SpecFunctions == InitFunctions /\ [][NextFunctions]_vars

\* The pattern detector on its own.
NextPatterns == DetectSecurityPatterns
SpecPatterns == InitPatterns /\ [][NextPatterns]_vars

\* The risk tier of a category and a count.
NextRisk == AssessPatternRiskLevel
SpecRisk == InitRisk /\ [][NextRisk]_vars

\* The complexity analyzer and the two extractors whose lists it is reported with.
NextComplexity ==
    \/ ExtractAndAnalyzeFunctions
    \/ DetectSecurityPatterns
    \/ CalculateCyclomaticComplexity
    \/ CalculateMaxNestingDepth
    \/ CalculateHalsteadMetrics
    \/ CalculateMaintainabilityIndex
    \/ CalculateComplexityMetrics
SpecComplexity == InitComplexity /\ [][NextComplexity]_vars

\* The structural counter, the line statistics and the modifier extractor.
NextStructure == AnalyzeBasicStructure \/ ParseContractAst \/ ExtractFunctionModifiers
SpecStructure == InitStructure /\ [][NextStructure]_vars

\* The maintainability index of given metrics.
NextIndex == CalculateMaintainabilityIndexOf
SpecIndex == InitRisk /\ [][NextIndex]_vars

\* audit_contract called repeatedly on one framework.
NextAudit == AuditContract
SpecAudit == InitRisk /\ [][NextAudit]_vars

\* The Halstead counter called on its own.
NextHalstead == CalculateHalsteadMetrics
SpecHalstead == InitHalstead /\ [][NextHalstead]_vars

\* The two attribute extractors called on their own.
NextAttributes == ExtractStateMutability \/ ExtractVisibility
SpecAttributes == InitAttributes /\ [][NextAttributes]_vars

\* monitor_performance called repeatedly on one learning system.
NextLearning == MonitorPerformance
SpecLearning == InitRisk /\ [][NextLearning]_vars

\* The pattern detector on texts whose lines hit several categories.
NextDetector == DetectSecurityPatterns
SpecDetector == InitDetector /\ [][NextDetector]_vars

\* The cyclomatic counter on a text and on the text extended.
NextCyclomatic == CalculateCyclomaticComplexity \/ CalculateCyclomaticAppended
SpecCyclomatic == InitCyclomatic /\ [][NextCyclomatic]_vars

-----------------------------------------------------------------------------
(* Properties.                                                             *)

\* The lines of the source text.
Lines == Split(contract_code)

\* The fields an analysis record carries.
AnalysisFields ==
    {"basic_analysis", "functions", "security_patterns", "complexity_metrics", "code_hash"}

\* C1: every call of process_smart_contract, whatever the source text, returns a
\* well-formed analysis record (statistics, function list, pattern findings,
\* complexity metrics, content hash) and not an error value.
C1_WellFormedRecord ==
    \A i \in 1..Len(results) :
        /\ "error" \notin DOMAIN results[i]
        /\ AnalysisFields \subseteq DOMAIN results[i]

\* A record without its timestamp field.
WithoutTimestamp(r) ==
    [f \in DOMAIN r \ {"timestamp", "processing_timestamp"} |-> r[f]]

\* C2 as stated: two runs of process_smart_contract on the same source text and
\* dialect return records identical in every field.
C2_IdenticalRuns ==
    \A i, j \in 1..Len(results) : results[i] = results[j]

\* C2 as amended: two runs on the same source text and dialect return records
\* with the same fields, identical in every field other than the timestamp.
C2_IdenticalButTimestamp ==
    \A i, j \in 1..Len(results) :
        /\ DOMAIN results[i] = DOMAIN results[j]
        /\ WithoutTimestamp(results[i]) = WithoutTimestamp(results[j])

\* Two runs on one text that read the clock at different times.
C2_TwoRunsApart ==
    /\ Len(results) = 2
    /\ results[1].timestamp # results[2].timestamp
    /\ contract_code = WithdrawLine

\* C3: for a source whose line k is the withdraw declaration, the function list
\* holds a record for line k with name "withdraw", visibility "public",
\* mutability "nonpayable", payable false and criticality true.
C3_WithdrawRecord ==
    functions # Unset =>
        \A k \in 1..Len(Lines) :
            Lines[k] = WithdrawLine =>
                \E i \in 1..Len(Val(functions)) :
                    LET f == Val(functions)[i]
                    IN  /\ f.line_number = k
                        /\ f.name = <<"w", "i", "t", "h", "d", "r", "a", "w">>
                        /\ f.visibility = "public"
                        /\ f.state_mutability = "nonpayable"
                        /\ f.is_payable = FALSE
                        /\ f.is_critical = TRUE

\* C4: for the empty source text the maintainability index, computed from the
\* lines of the split text, is 0.
C4_EmptyIndexZero ==
    (contract_code = <<>> /\ maintainability_index # Unset) =>
        Val(maintainability_index) = 0

\* C5: for the empty source text cyclomatic complexity is 1, max nesting depth is
\* 0, Halstead volume, difficulty and effort are 0, the function list is empty and
\* the list of pattern findings is empty.
C5_ZeroFloor ==
    contract_code = <<>> =>
        /\ cyclomatic_complexity # Unset => Val(cyclomatic_complexity) = 1
        /\ max_nesting_depth # Unset => Val(max_nesting_depth) = 0
        /\ halstead_metrics # Unset =>
               /\ Val(halstead_metrics).volume = 0
               /\ Val(halstead_metrics).difficulty = 0
               /\ Val(halstead_metrics).effort = 0
        /\ functions # Unset => Len(Val(functions)) = 0
        /\ security_patterns # Unset => Len(Val(security_patterns)) = 0

\* The empty text with every one of the five analyses made.
C5_EmptyAnalysed ==
    /\ contract_code = <<>>
    /\ cyclomatic_complexity # Unset
    /\ max_nesting_depth # Unset
    /\ halstead_metrics # Unset
    /\ functions # Unset
    /\ security_patterns # Unset

\* The categories with explicit thresholds.
ExplicitThresholds == {"reentrancy", "external_calls", "assembly", "selfdestruct"}

\* C6: for a category without explicit thresholds and a count >= 1 the tier is
\* HIGH when count >= 5, MEDIUM when 2 <= count < 5 and LOW when count < 2; 5 hits
\* give HIGH, 2 give MEDIUM, 1 gives LOW.
C6_DefaultTier ==
    risk_call # Unset =>
        LET c == Val(risk_call)
        IN  (c.pattern_type \notin ExplicitThresholds /\ c.count >= 1) =>
                /\ c.count >= 5 => c.risk_level = "HIGH"
                /\ (2 <= c.count /\ c.count < 5) => c.risk_level = "MEDIUM"
                /\ c.count < 2 => c.risk_level = "LOW"
                /\ c.count = 5 => c.risk_level = "HIGH"
                /\ c.count = 2 => c.risk_level = "MEDIUM"
                /\ c.count = 1 => c.risk_level = "LOW"

\* A category with default thresholds assessed at exactly 5 hits.
C6_FiveHits ==
    /\ risk_call # Unset
    /\ Val(risk_call).pattern_type = "access_control"
    /\ Val(risk_call).count = 5
    /\ Val(risk_call).risk_level = "HIGH"

\* C7: for a source whose line k is the withdraw declaration, the detector emits a
\* finding of category reentrancy or external_calls with count >= 1 whose
\* locations contain k.
C7_WithdrawDetected ==
    security_patterns # Unset =>
        \A k \in 1..Len(Lines) :
            Lines[k] = WithdrawLine =>
                \E i \in 1..Len(Val(security_patterns)) :
                    LET f == Val(security_patterns)[i]
                    IN  /\ f.pattern_type \in {"reentrancy", "external_calls"}
                        /\ f.count >= 1
                        /\ \E n \in 1..Len(f.locations) : f.locations[n] = k

\* The withdraw declaration on the second line of a scanned text.
C7_WithdrawOnSecondLine ==
    /\ security_patterns # Unset
    /\ Len(Lines) >= 2
    /\ Lines[2] = WithdrawLine
    /\ Lines[1] # WithdrawLine

\* The number of pairs (line, keyword) with the keyword a substring of the line.
HitCount(keywords, lines) ==
    Cardinality({p \in (1..Len(lines)) \X (1..Len(keywords)) :
                     Contains(keywords[p[2]], lines[p[1]])})

\* C8: a finding is emitted for a category if and only if the category's hit
\* count over the source is greater than 0, and no finding has count 0.
C8_FindingIffHits ==
    security_patterns # Unset =>
        /\ \A k \in 1..Len(security_keywords) :
               (\E i \in 1..Len(Val(security_patterns)) :
                    Val(security_patterns)[i].pattern_type = security_keywords[k].pattern_type)
               <=> HitCount(security_keywords[k].keywords, Lines) > 0
        /\ \A i \in 1..Len(Val(security_patterns)) : Val(security_patterns)[i].count > 0

\* A scanned text with hits in some categories and none in the others.
C8_SomeCategoriesHit ==
    /\ security_patterns # Unset
    /\ Len(Val(security_patterns)) > 0
    /\ \E k \in 1..Len(security_keywords) :
           HitCount(security_keywords[k].keywords, Lines) = 0

\* The place of a category in the declaration order of the keyword table.
DeclarationIndex(pattern_type) ==
    CHOOSE k \in 1..Len(PatternTypes) : PatternTypes[k] = pattern_type

\* C9: the findings appear in the declaration order of the categories, and the
\* locations of every finding are in non-decreasing line order.
C9_DeclarationOrder ==
    security_patterns # Unset =>
        LET found == Val(security_patterns)
        IN  /\ \A i, j \in 1..Len(found) :
                   i < j => DeclarationIndex(found[i].pattern_type)
                                < DeclarationIndex(found[j].pattern_type)
            /\ \A i \in 1..Len(found) :
                   \A m, n \in 1..Len(found[i].locations) :
                       m < n => found[i].locations[m] <= found[i].locations[n]

\* Several findings, one of them with hits on two different lines.
C9_SeveralFindings ==
    /\ security_patterns # Unset
    /\ Len(Val(security_patterns)) >= 3
    /\ \E i \in 1..Len(Val(security_patterns)) :
           LET loc == Val(security_patterns)[i].locations
           IN  \E m, n \in 1..Len(loc) : loc[m] < loc[n]

\* C10: the cyclomatic complexity of a text with any text appended is at least
\* that of the text.
C10_Monotone ==
    (cyclomatic_complexity # Unset /\ cyclomatic_appended # Unset) =>
        Val(cyclomatic_appended) >= Val(cyclomatic_complexity)

\* A text ending in half a token and an appended text that completes it and
\* adds a line.
C10_AppendedCounts ==
    /\ cyclomatic_complexity # Unset
    /\ cyclomatic_appended # Unset
    /\ contract_code = <<"&", "&", "e", "l">>
    /\ appended = <<"s", "e">> \o <<"\n">>
    /\ Val(cyclomatic_complexity) = 2
    /\ Val(cyclomatic_appended) = 3

\* C11: process_smart_contract returns a record carrying the key "error" only
\* when an internal fault occurred; no step of this model is such a fault (every
\* text here is a valid source, the empty one included), so every result carries
\* the analysis fields and no "error" key.
C11_ErrorOnlyOnFault ==
    \A i \in 1..Len(results) :
        LET r == results[i]
        IN  /\ \A field \in AnalysisFields : field \in DOMAIN r
            /\ "error" \notin DOMAIN r

\* The indices of the function-declaration lines of the text, and those among
\* them whose analysis returns a record.
FunctionLines == {k \in 1..Len(Lines) : IsFunctionLine(Lines[k])}
AnalysedLines ==
    {k \in FunctionLines : _analyze_single_function(Lines[k], k, Lines) # None}

\* C12: the extractor returns normally whatever lines fail; the list it returns
\* holds no entry for a function-declaration line whose analysis failed and one
\* record for every line, before or after a failing one, whose analysis succeeded.
C12_LocalFailure ==
    functions # Unset =>
        /\ Len(Val(functions)) = Cardinality(AnalysedLines)
        /\ \A k \in AnalysedLines :
               \E i \in 1..Len(Val(functions)) : Val(functions)[i].line_number = k

\* The extractor has returned for a text with a failing declaration line followed
\* by further declaration lines.
C12_FailingLineThenMore ==
    /\ functions # Unset
    /\ \E k, l \in FunctionLines : k < l /\ k \notin AnalysedLines
    /\ Len(Val(functions)) = 0

ConstructKeyword ==
    [contracts_count |-> <<"c", "o", "n", "t", "r", "a", "c", "t", " ">>, interfaces_count |-> <<"i", "n", "t", "e", "r", "f", "a", "c", "e", " ">>,
     libraries_count |-> <<"l", "i", "b", "r", "a", "r", "y", " ">>, functions_count |-> <<"f", "u", "n", "c", "t", "i", "o", "n", " ">>,
     modifiers_count |-> <<"m", "o", "d", "i", "f", "i", "e", "r", " ">>, events_count |-> <<"e", "v", "e", "n", "t", " ">>,
     structs_count |-> <<"s", "t", "r", "u", "c", "t", " ">>, enums_count |-> <<"e", "n", "u", "m", " ">>,
     imports_count |-> <<"i", "m", "p", "o", "r", "t", " ">>]

\* The positions of the text at which the keyword starts.
Occurrences(keyword, code) ==
    {i \in 1..Len(code) :
        i + Len(keyword) - 1 <= Len(code) /\ SubSeq(code, i, i + Len(keyword) - 1) = keyword}

\* C13: for a dialect that is none of the recognised ones, whatever its case, the
\* structural counter returns exactly the common counts and the pragma
\* directives, none of the Solidity-specific counts; each count is the number of
\* occurrences of its keyword, 0 when the keyword does not occur, and there is
\* no pragma directive in a text without the word pragma.
C13_UnknownDialect ==
    (ast_info # Unset /\ Lower(contract_language) \notin SetOf(supported_languages)) =>
        LET info == Val(ast_info)
        IN  /\ DOMAIN info = DOMAIN ConstructKeyword \cup {"pragma_directives"}
            /\ \A c \in DOMAIN ConstructKeyword :
                   info[c] = Cardinality(Occurrences(ConstructKeyword[c], contract_code))
            /\ Occurrences(<<"p", "r", "a", "g", "m", "a">>, contract_code) = {} => info.pragma_directives = <<>>

\* The counter has returned for a dialect it does not know and a text that holds
\* a contract, a pragma directive and a Solidity mapping.
C13_UnknownDialectCounted ==
    /\ ast_info # Unset
    /\ contract_language = <<"r", "u", "s", "t">>
    /\ Val(ast_info).contracts_count = 1
    /\ Val(ast_info).functions_count = 0
    /\ Val(ast_info).pragma_directives = <<PragmaLine>>
    /\ Occurrences(<<"m", "a", "p", "p", "i", "n", "g", "(">>, contract_code) # {}

C16_EmptyAllZero ==
    (contract_code = <<>> /\ basic_analysis # Unset) =>
        \A aggregate \in DOMAIN Val(basic_analysis) : Val(basic_analysis)[aggregate] = 0

\* C20: the modifier list of a line holds exactly the words of the vocabulary that
\* are tokens of the line, in vocabulary order; a word that occurs only inside a
\* longer identifier is not listed.
C20_WholeTokens ==
    modifiers_call # Unset =>
        LET call == Val(modifiers_call)
            tokens == SetOf(Operands(call.line))
        IN  call.modifiers = SelectSeq(common_modifiers, LAMBDA modifier : modifier \in tokens)

\* C18: when the Halstead volume is not positive the index is
\* clamp(171 - 0.23 * cyclomatic - 16.2 * ln(lines_of_code), 0, 100), for every
\* line count from 1 on: ln(volume) contributes 0.
C18_ZeroVolumeTerm ==
    (index_call # Unset /\ Val(index_call).volume <= 0 /\ Val(index_call).lines_of_code >= 1) =>
        LET call == Val(index_call)
        IN  call.index =
                Clamp(SubScaled(
                          SubScaled(Finite(171000), 23, 100, Finite(1000 * call.cyclomatic)),
                          162, 10, NpLog(1000 * call.lines_of_code)))

\* C19: cyclomatic complexity is at least 1, max nesting depth is at least 0, also
\* for a text with more closing than opening braces, and the maintainability
\* index lies between 0 and 100.
C19_Ranges ==
    /\ cyclomatic_complexity # Unset => Val(cyclomatic_complexity) >= 1
    /\ max_nesting_depth # Unset => Val(max_nesting_depth) >= 0
    /\ maintainability_index # Unset =>
           Val(maintainability_index) >= 0 /\ Val(maintainability_index) <= 100000

\* The three metrics of a text with more closing than opening braces.
C19_MoreClosingBraces ==
    /\ cyclomatic_complexity # Unset
    /\ max_nesting_depth # Unset
    /\ maintainability_index # Unset
    /\ Count(contract_code, <<"}">>) > Count(contract_code, <<"{">>)
    /\ Val(max_nesting_depth) = 0

\* C17: every call of audit_contract, whatever mapping it is given and whichever
\* of its stages fail, returns a report with all its keys and does not raise.
C17_AlwaysReport ==
    audit_outcome # Unset =>
        /\ "raised" \notin DOMAIN Val(audit_outcome)
        /\ ReportKeys \subseteq DOMAIN Val(audit_outcome)

\* The counter of C21 after the opening braces of line i: the braces opened by
\* the lines up to i less the braces closed by the lines before i.
RECURSIVE Braces(_, _, _)
Braces(lines, brace, i) ==
    IF i = 0 THEN 0 ELSE Count(lines[i], brace) + Braces(lines, brace, i - 1)
CounterAt(lines, i) == Braces(lines, <<"{">>, i) - Braces(lines, <<"}">>, i - 1)

\* C21: max nesting depth is the largest value reached by a counter that
\* starts at 0 and that each line, in input order, raises by its number of '{'
\* and then lowers by its number of '}'; the counter is not clamped at zero.
C21_RunningMaximum ==
    max_nesting_depth # Unset =>
        LET lines == Lines
            reached == {0} \cup {CounterAt(lines, i) : i \in 1..Len(lines)}
        IN  /\ Val(max_nesting_depth) \in reached
            /\ \A depth \in reached : depth <= Val(max_nesting_depth)

\* The depth of a text whose counter is negative before a line that opens a
\* brace: a counter clamped at zero would report a larger depth.
C21_NegativeThenOpened ==
    /\ max_nesting_depth # Unset
    /\ \E i \in 2..Len(Lines) :
           /\ Braces(Lines, <<"{">>, i - 1) < Braces(Lines, <<"}">>, i - 1)
           /\ Count(Lines[i], <<"{">>) > 0
           /\ Val(max_nesting_depth) < Count(Lines[i], <<"{">>)

\* The operator characters and the operands (maximal runs of word characters)
\* of the source text, as positions.
OperatorPositions == {i \in 1..Len(contract_code) : contract_code[i] \in OperatorChars}
OperandSpans ==
    {span \in (1..Len(contract_code)) \X (1..Len(contract_code)) :
        /\ span[1] <= span[2]
        /\ \A j \in span[1]..span[2] : contract_code[j] \in WordChars
        /\ span[1] = 1 \/ contract_code[span[1] - 1] \notin WordChars
        /\ span[2] = Len(contract_code) \/ contract_code[span[2] + 1] \notin WordChars}

\* C22: when the text has no operator or no operand, volume, difficulty and
\* effort are exactly 0; otherwise volume = (N1+N2)*log2(n1+n2), difficulty =
\* (n1/2)*(N2/n2) and effort = difficulty*volume, with n2 and n1+n2 positive.
C22_HalsteadZeroGuard ==
    halstead_metrics # Unset =>
        LET n1 == Cardinality({contract_code[i] : i \in OperatorPositions})
            n2 == Cardinality({SubSeq(contract_code, span[1], span[2]) : span \in OperandSpans})
            N1 == Cardinality(OperatorPositions)
            N2 == Cardinality(OperandSpans)
            halstead == Val(halstead_metrics)
        IN  IF n1 = 0 \/ n2 = 0
            THEN halstead = [volume |-> 0, difficulty |-> 0, effort |-> 0]
            ELSE /\ n2 > 0 /\ n1 + n2 > 1
                 /\ halstead.volume = (N1 + N2) * NpLog2(n1 + n2)
                 /\ halstead.difficulty = (1000 * n1 * N2) \div (2 * n2)
                 /\ halstead.effort = MulMilli(halstead.difficulty, halstead.volume)

\* The metrics of a text with several operands and no operator, where the
\* formulas would not give 0.
C22_OperandsOnly ==
    /\ halstead_metrics # Unset
    /\ OperatorPositions = {}
    /\ Cardinality(OperandSpans) >= 2
    /\ Val(halstead_metrics).volume = 0

\* The line holds the word somewhere, inside a longer word or not.
Present(word, line) == Occurrences(word, line) # {}

\* C23: the mutability of a line is "pure" if the line contains pure, otherwise
\* "view" if it contains view, otherwise "payable" if it contains payable,
\* otherwise "nonpayable": one of the four values, chosen in that priority.
C23_MutabilityPriority ==
    mutability_call # Unset =>
        LET line == Val(mutability_call).line
            state_mutability == Val(mutability_call).state_mutability
        IN  /\ state_mutability \in {"pure", "view", "payable", "nonpayable"}
            /\ state_mutability = "pure" <=> Present(<<"p", "u", "r", "e">>, line)
            /\ state_mutability = "view" <=>
                   Present(<<"v", "i", "e", "w">>, line) /\ ~Present(<<"p", "u", "r", "e">>, line)
            /\ state_mutability = "payable" <=>
                   /\ Present(<<"p", "a", "y", "a", "b", "l", "e">>, line)
                   /\ ~Present(<<"v", "i", "e", "w">>, line) /\ ~Present(<<"p", "u", "r", "e">>, line)

\* The mutability of a declaration line that holds view and, after it, pure.
C23_ViewThenPure ==
    /\ mutability_call # Unset
    /\ IsFunctionLine(Val(mutability_call).line)
    /\ \E v \in Occurrences(<<"v", "i", "e", "w">>, Val(mutability_call).line),
          p \in Occurrences(<<"p", "u", "r", "e">>, Val(mutability_call).line) : v < p
    /\ Val(mutability_call).state_mutability = "pure"

\* C24: the visibility of a line is the first of public, private, internal,
\* external (in that order) that is present in the line, and "unknown" exactly
\* when none of the four is present.
C24_FirstListedVisibility ==
    visibility_call # Unset =>
        LET line == Val(visibility_call).line
            visibility == Val(visibility_call).visibility
            visibilities == <<<<"p", "u", "b", "l", "i", "c">>, <<"p", "r", "i", "v", "a", "t", "e">>, <<"i", "n", "t", "e", "r", "n", "a", "l">>, <<"e", "x", "t", "e", "r", "n", "a", "l">>>>
            names == <<"public", "private", "internal", "external">>
            present == {k \in 1..4 : Present(visibilities[k], line)}
        IN  IF present = {} THEN visibility = "unknown"
            ELSE \E k \in present : /\ visibility = names[k]
                                    /\ \A j \in present : k <= j

\* The visibility of a declaration line that holds private and, after it, public.
C24_PrivateThenPublic ==
    /\ visibility_call # Unset
    /\ IsFunctionLine(Val(visibility_call).line)
    /\ \E v \in Occurrences(<<"p", "r", "i", "v", "a", "t", "e">>, Val(visibility_call).line),
          p \in Occurrences(<<"p", "u", "b", "l", "i", "c">>, Val(visibility_call).line) : v < p
    /\ Val(visibility_call).visibility = "public"

\* The sum of the accuracies of the entries first..last of a history, in
\* thousandths.
RECURSIVE AccuracySum(_, _, _)
AccuracySum(history, first, last) ==
    IF first > last THEN 0
    ELSE history[first].accuracy + AccuracySum(history, first + 1, last)

\* The mean accuracy of the entries before the last five exceeds that of the
\* last five by more than 0.1, in a history of more than five entries.
AccuracyDropped(history) ==
    LET n == Len(history)
    IN  /\ n > 5
        /\ 5 * AccuracySum(history, 1, n - 5) - (n - 5) * AccuracySum(history, n - 4, n)
               > 100 * 5 * (n - 5)

\* C25: each call of monitor_performance appends exactly one entry to
\* performance_history and at most one model version, and it appends a version
\* if and only if, after the append, the history has more than 5 entries and
\* the mean accuracy of the entries before the last five exceeds the mean
\* accuracy of the last five by more than 0.1.
C25_UpdateTrigger ==
    [][MonitorPerformance =>
          /\ Len(performance_history') = Len(performance_history) + 1
          /\ SubSeq(performance_history', 1, Len(performance_history)) = performance_history
          /\ \/ model_versions' = model_versions
             \/ /\ Len(model_versions') = Len(model_versions) + 1
                /\ SubSeq(model_versions', 1, Len(model_versions)) = model_versions
          /\ model_versions' # model_versions <=> AccuracyDropped(performance_history')
      ]_vars

\* A learning system with more than five entries that appended a model version
\* in some of its calls past the fifth and none in others.
C25_VersionAppended ==
    /\ Len(performance_history) > 5
    /\ model_versions # <<>>
    /\ Len(model_versions) < Len(performance_history) - 5

\* The last call of audit_contract raised.
Raised(outcome) == "raised" \in DOMAIN Val(outcome)

\* C26: statistics["total_processed"] equals the length of statistics["audits"],
\* the n-th report of that list has statistics.total_audits = n, a call that
\* returns a report appends it and counts it (so both equal the number of calls
\* that returned), and a call that raises leaves the two fields unchanged.
C26_AuditStatistics ==
    /\ [](/\ statistics.total_processed = Len(statistics.audits)
          /\ \A n \in 1..Len(statistics.audits) :
                 statistics.audits[n].statistics.total_audits = n)
    /\ [][AuditContract =>
             IF Raised(audit_outcome')
             THEN statistics' = statistics
             ELSE /\ statistics'.audits = Append(statistics.audits, Val(audit_outcome'))
                  /\ statistics'.total_processed = statistics.total_processed + 1
                  /\ Val(audit_outcome').statistics.total_audits = statistics'.total_processed
         ]_vars

\* A framework that returned two reports and whose last call raised.
C26_ReturnedAndRaised ==
    /\ audit_outcome # Unset
    /\ Raised(audit_outcome)
    /\ performance_history # <<>>
    /\ statistics.total_processed = 2

\* The findings of the last scan for a category, and the set of their lines.
FindingsOf(pattern_type) ==
    {i \in 1..Len(Val(security_patterns)) :
        Val(security_patterns)[i].pattern_type = pattern_type}
LinesOf(i) == SetOf(Val(security_patterns)[i].locations)

\* C27: a "reentrancy" finding is emitted if and only if an "external_calls"
\* finding is emitted, and the two findings have the same set of line numbers.
C27_ReentrancyWithExternalCalls ==
    security_patterns # Unset =>
        /\ FindingsOf("reentrancy") # {} <=> FindingsOf("external_calls") # {}
        /\ \A i \in FindingsOf("reentrancy"), j \in FindingsOf("external_calls") :
               LinesOf(i) = LinesOf(j)

\* A scan with the two findings on a line whose only external-call keywords are
\* staticcall and the call inside it, and with different counts.
C27_StaticcallCoupled ==
    /\ security_patterns # Unset
    /\ \E n \in 1..Len(Lines) : Lines[n] = StaticcallLine
    /\ \E i \in FindingsOf("reentrancy"), j \in FindingsOf("external_calls") :
           Val(security_patterns)[i].count < Val(security_patterns)[j].count

\* C28: every emitted "selfdestruct" finding has tier HIGH, every emitted
\* "reentrancy" or "assembly" finding has tier MEDIUM or HIGH, and a finding of
\* tier LOW belongs to a category whose medium threshold is at least 2 (none of
\* those three) and has fewer than 2 hits.
C28_TiersThatCannotOccur ==
    security_patterns # Unset =>
        \A i \in 1..Len(Val(security_patterns)) :
            LET finding == Val(security_patterns)[i]
            IN  /\ finding.pattern_type = "selfdestruct" => finding.risk_level = "HIGH"
                /\ finding.pattern_type \in {"reentrancy", "assembly"} =>
                       finding.risk_level \in {"MEDIUM", "HIGH"}
                /\ finding.risk_level = "LOW" =>
                       /\ finding.pattern_type \notin {"reentrancy", "assembly", "selfdestruct"}
                       /\ finding.count < 2

\* A scan that emitted a selfdestruct and an assembly finding of one hit each,
\* and a finding of tier LOW.
C28_SingleHits ==
    /\ security_patterns # Unset
    /\ \A pattern_type \in {"selfdestruct", "assembly"} :
           \E i \in FindingsOf(pattern_type) : Val(security_patterns)[i].count = 1
    /\ \E i \in 1..Len(Val(security_patterns)) : Val(security_patterns)[i].risk_level = "LOW"

\* The keywords of a category of the table.
KeywordsOf(pattern_type) == security_keywords[DeclarationIndex(pattern_type)].keywords

\* C29: the count of a finding equals the length of its location list and the
\* number of pairs (line, keyword of the category) with the keyword a substring
\* of the line; a line is listed once per keyword it holds, however often it
\* holds the keyword.
C29_HitCounting ==
    security_patterns # Unset =>
        \A i \in 1..Len(Val(security_patterns)) :
            LET finding == Val(security_patterns)[i]
                keywords == KeywordsOf(finding.pattern_type)
            IN  /\ finding.count = Len(finding.locations)
                /\ finding.count =
                       Cardinality({hit \in (1..Len(Lines)) \X (1..Len(keywords)) :
                                        Present(keywords[hit[2]], Lines[hit[1]])})
                /\ \A n \in 1..Len(Lines) :
                       Cardinality({m \in 1..Len(finding.locations) : finding.locations[m] = n})
                           = Cardinality({k \in 1..Len(keywords) : Present(keywords[k], Lines[n])})

\* A scan of a line listed twice by one finding (two keywords) and of a line that
\* holds one keyword twice and is listed once.
C29_TwiceListedAndRepeated ==
    /\ security_patterns # Unset
    /\ \E i \in 1..Len(Val(security_patterns)) :
           \E m, n \in 1..Len(Val(security_patterns)[i].locations) :
               m # n /\ Val(security_patterns)[i].locations[m] = Val(security_patterns)[i].locations[n]
    /\ \E i \in FindingsOf("gas"), n \in 1..Len(Lines) :
           /\ Lines[n] = GasLine
           /\ Val(security_patterns)[i].locations = <<n>>

\* The positions of a line at which a function declaration starts.
Declarations(line) == {p \in 1..Len(line) : FunctionAt(line, p)}

====
